---------------------------- MODULE Spec2Model ----------------------------
(***************************************************************************)
(* A model of the razermapper daemon core: the macro engine (macro map,    *)
(* recording state machine, trigger dispatch, playback tasks), and the     *)
(* request handlers of the IPC server that act on the daemon state.        *)
(*                                                                         *)
(* Callers of the engine (connection tasks of the IPC server, the event    *)
(* dispatcher task, users of the library API) are the processes Procs.     *)
(* Each has a position pc[p]; an operation that awaits a lock in its       *)
(* middle is split at that await.  tokio's RwLock is not re-entrant: a     *)
(* task that holds the write half and awaits the read half waits forever.  *)
(*                                                                         *)
(* Option<T> is modelled as a sequence of length at most one; the holder   *)
(* of a lock's write half as a set of at most one caller.                  *)
(***************************************************************************)
EXTENDS Integers, Sequences, FiniteSets, TLC

VARIABLES
    injector,          \* MacroEngine.injector is Some
    macros,            \* MacroEngine.macros: name -> entry
    macros_lock,       \* the RwLock around MacroEngine.macros
    active_combos,     \* MacroEngine.active_combos
    recording,         \* MacroEngine.recording: Option<MacroEntry>
    executing,         \* MacroEngine.executing: name -> ExecutionState (task id)
    tasks,             \* the playback tasks spawned by execute_macro
    devices,           \* DaemonState.devices (paths of the snapshot)
    state_macros,      \* DaemonState.macros: name -> entry
    active_recording,  \* DaemonState.active_recording: Option<(name, device)>
    pc,                \* position of each caller
    cur,               \* the entry a caller's execute_macro is working on
    todo,              \* entries a caller's check_macro_triggers has yet to visit
    ret,               \* who called a caller's execute_macro
    req,               \* the operation a caller is in the middle of
    input_log,         \* history: events processed since the recording started
    event,             \* history: the operation completed by the last step
    config_macros,     \* ConfigManager.macros: key -> entry
    cmacros_lock,      \* the RwLock around ConfigManager.macros
    profiles,          \* ConfigManager.profiles: name -> Profile
    profiles_lock,     \* the RwLock around ConfigManager.profiles
    profile_files,     \* <profiles_dir>/<name>.yaml: name -> Profile
    config_file,       \* config.yaml: "missing", "valid" or "invalid"
    cache_file,        \* macros.bin: Option of its content
    macros_file,       \* macros.yaml: Option of its content
    token_auth,        \* SecurityManager.token_auth_enabled (the token-auth feature)
    auth_tokens,       \* SecurityManager.auth_tokens: token -> expiration
    now,               \* SystemTime::now(), in hours
    issued,            \* history: token -> time generate_auth_token returned it
    authed,            \* history: clients whose Authenticate was answered Authenticated
    conn,              \* history: the connection handle_client served last
    grabbed_devices,   \* DeviceManager.grabbed_devices: path -> GrabbedDevice
    kernel_grab,       \* devices the kernel holds in exclusive capture for the daemon
    workers,           \* the event reader tasks spawned by start_event_reader
    channel,           \* the mpsc channel from the workers to the dispatcher
    kernel_events,     \* number of key events each device has produced
    read_log,          \* history: per device, the events read by workers, in read order
    delivered,         \* history: per device, the events the dispatcher received
    uinput,            \* the events written to the virtual device, each with its writer
    inject_errors,     \* history: the actions whose injector call returned an error
    spawned            \* history: the subprocesses execute_command has spawned

vars == << injector, macros, macros_lock, active_combos, recording, executing,
           tasks, devices, state_macros, active_recording, pc, cur, todo, ret,
           req, input_log, event, config_macros, cmacros_lock, profiles,
           profiles_lock, profile_files, config_file, cache_file, macros_file,
           token_auth, auth_tokens, now, issued, authed, conn, grabbed_devices,
           kernel_grab, workers, channel,
           kernel_events, read_log, delivered, uinput, inject_errors, spawned >>

engine_vars == << injector, macros, macros_lock, active_combos, executing, tasks >>
daemon_vars == << devices, state_macros, active_recording >>
caller_vars == << pc, cur, todo, ret, req >>
disk_vars == << config_file, cache_file, macros_file >>
config_vars == << config_macros, cmacros_lock, profiles, profiles_lock, profile_files,
                 disk_vars >>
security_vars == << token_auth, auth_tokens, now, issued >>
conn_vars == << authed, conn >>
device_vars == << grabbed_devices, kernel_grab, workers, channel, kernel_events,
                 read_log, delivered >>
injector_vars == << uinput, inject_errors, spawned >>
\* the components the engine and the macro handlers never touch
ext_vars == << config_vars, security_vars, conn_vars, device_vars, injector_vars >>

----------------------------------------------------------------------------
(* Bounds and input domains *)

NProcs == 2
MaxTasks == 2
MaxEvents == 2

Procs == 1..NProcs

\* MacroEngine::with_config(max_concurrent_macros, _)
max_concurrent_macros == 1

MacroNames == {"m1", "m2"}
DevicePaths == {"/dev/input/test0", "/dev/input/test1"}
KeyCodes == {30}

KeyPress(c) == [type |-> "KeyPress", code |-> c]
KeyRelease(c) == [type |-> "KeyRelease", code |-> c]

None == << >>
Some(x) == << x >>

MacroEntry(n, keys, acts, dev, en) ==
    [name |-> n, trigger |-> keys, actions |-> acts, device_id |-> dev, enabled |-> en]

\* entries a client or library user submits
ActionLists == { << KeyPress(30), KeyRelease(30) >>, << KeyPress(30) >> }
InputEntries ==
    { MacroEntry(n, {30}, a, None, TRUE) : n \in MacroNames, a \in ActionLists }
PlayEntries == { MacroEntry(n, {30}, << KeyPress(30) >>, None, TRUE) : n \in MacroNames }
\* names and devices used against the engine's own macro map
MapNames == {"m1"}
MapEntries == { m \in PlayEntries : m.name \in MapNames }
TriggerDevices == {"/dev/input/test0"}

\* an operation with its arguments and, once it has returned, its result
Ev(op, name, device, code, entry, resp, msg) ==
    [op |-> op, name |-> name, device |-> device, code |-> code, entry |-> entry,
     resp |-> resp, msg |-> msg]
NoEvent == Ev("none", "", "", 0, None, "", "")
NoReq == Ev("none", "", "", 0, None, "", "")
Returned(r, resp, msg) == [r EXCEPT !.resp = resp, !.msg = msg]

----------------------------------------------------------------------------
(* Helpers *)

Insert(map, k, v) == [x \in DOMAIN map \cup {k} |-> IF x = k THEN v ELSE map[x]]
Remove(map, k) == [x \in DOMAIN map \ {k} |-> map[x]]
EmptyMap == [x \in {} |-> None]

CanWrite(lock) == lock.writer = {} /\ lock.readers = {}
CanRead(lock) == lock.writer = {}

SetPc(p, v) == pc' = [pc EXCEPT ![p] = v]

\* keys_match
keys_match(combo, key_code) == key_code \in combo

\* the triggers of the enabled macros, as update_active_combos collects them
EnabledTriggers(map) == { map[n].trigger : n \in { x \in DOMAIN map : map[x].enabled } }

\* the entries check_macro_triggers executes for a press of key_code on device_path
Triggered(map, key_code, device_path) ==
    { map[n] : n \in { x \in DOMAIN map :
          /\ map[x].enabled
          /\ (map[x].device_id = None \/ map[x].device_id = Some(device_path))
          /\ keys_match(map[x].trigger, key_code) } }

----------------------------------------------------------------------------
(* Macro engine: the macro map *)

\* add_macro up to its call of update_active_combos; the write guard `macros`
\* lives until add_macro returns
add_macro(p, m) ==
    /\ pc[p] = "idle"
    /\ CanWrite(macros_lock)
    /\ IF m.name \in DOMAIN macros
       THEN /\ event' = Ev("add_macro", m.name, "", 0, Some(m), "Err", "already exists")
            /\ UNCHANGED << macros, macros_lock, pc, req >>
       ELSE /\ macros' = Insert(macros, m.name, m)
            /\ macros_lock' = [macros_lock EXCEPT !.writer = {p}]
            /\ SetPc(p, "update_active_combos")
            /\ req' = [req EXCEPT ![p] = Ev("add_macro", m.name, "", 0, Some(m), "", "")]
            /\ event' = NoEvent
    /\ UNCHANGED << injector, active_combos, recording, executing, tasks,
                    daemon_vars, ext_vars, cur, todo, ret, input_log >>

\* remove_macro up to its call of update_active_combos
remove_macro(p, name) ==
    /\ pc[p] = "idle"
    /\ CanWrite(macros_lock)
    /\ IF name \notin DOMAIN macros
       THEN /\ event' = Ev("remove_macro", name, "", 0, None, "Ok(false)", "")
            /\ UNCHANGED << macros, macros_lock, pc, req >>
       ELSE /\ macros' = Remove(macros, name)
            /\ macros_lock' = [macros_lock EXCEPT !.writer = {p}]
            /\ SetPc(p, "update_active_combos")
            /\ req' = [req EXCEPT ![p] = Ev("remove_macro", name, "", 0, None, "", "")]
            /\ event' = NoEvent
    /\ UNCHANGED << injector, active_combos, recording, executing, tasks,
                    daemon_vars, ext_vars, cur, todo, ret, input_log >>

\* get_macro is called; it awaits macros.read()
get_macro(p, name) ==
    /\ pc[p] = "idle"
    /\ SetPc(p, "get_macro")
    /\ req' = [req EXCEPT ![p] = Ev("get_macro", name, "", 0, None, "", "")]
    /\ event' = NoEvent
    /\ UNCHANGED << engine_vars, recording, daemon_vars, ext_vars, cur, todo, ret, input_log >>

ReadWaiters == { "update_active_combos", "check_macro_triggers", "list_macros", "get_macro" }

\* the body of update_active_combos once macros.read() is granted, and the
\* return of add_macro / remove_macro, which drops the write guard
update_active_combos(p) ==
    /\ active_combos' = EnabledTriggers(macros)
    /\ macros_lock' = [macros_lock EXCEPT !.writer = {}]
    /\ SetPc(p, "idle")
    /\ event' = Returned(req[p], IF req[p].op = "add_macro" THEN "Ok" ELSE "Ok(true)", "")
    /\ req' = [req EXCEPT ![p] = NoReq]
    /\ UNCHANGED << cur, todo, ret >>

\* the body of get_macro once macros.read() is granted
get_macro_body(p) ==
    /\ event' = IF req[p].name \in DOMAIN macros
                THEN [req[p] EXCEPT !.resp = "Some", !.entry = Some(macros[req[p].name])]
                ELSE [req[p] EXCEPT !.resp = "None"]
    /\ SetPc(p, "idle")
    /\ req' = [req EXCEPT ![p] = NoReq]
    /\ UNCHANGED << active_combos, macros_lock, cur, todo, ret >>

\* check_macro_triggers once macros.read() is granted: the capacity test, made
\* once, before the loop over the macros; the read guard lives until it returns
check_macro_triggers(p) ==
    /\ UNCHANGED << active_combos, cur, ret >>
    /\ IF Cardinality(DOMAIN executing) >= max_concurrent_macros
       THEN /\ event' = Returned(req[p], "Ok", "max concurrent macros reached")
            /\ SetPc(p, "idle")
            /\ req' = [req EXCEPT ![p] = NoReq]
            /\ UNCHANGED << macros_lock, todo >>
       ELSE /\ macros_lock' = [macros_lock EXCEPT !.readers = @ \cup {p}]
            /\ todo' = [todo EXCEPT ![p] = Triggered(macros, req[p].code, req[p].device)]
            /\ SetPc(p, "cmt_loop")
            /\ event' = NoEvent
            /\ UNCHANGED req

\* a listing that still holds macro m1, whatever the map
list_macros_stale(map) == MapEntries

\* list_macros: macros.values().cloned().collect()
list_macros(map) == { map[n] : n \in DOMAIN map }

\* the lookup of the TestMacro / ExecuteMacro handlers once list_macros has
\* its read guard: macros.into_iter().find(|m| m.name == name)
list_macros_find(p) ==
    LET found == { m \in list_macros(macros) : m.name = req[p].name } IN
    /\ UNCHANGED << active_combos, macros_lock, todo >>
    /\ IF found = {}
       THEN /\ event' = Returned(req[p], "Error", "Macro not found")
            /\ SetPc(p, "idle")
            /\ req' = [req EXCEPT ![p] = NoReq]
            /\ UNCHANGED << cur, ret >>
       ELSE /\ \E m \in found : cur' = [cur EXCEPT ![p] = Some(m)]
            /\ ret' = [ret EXCEPT ![p] = "ipc"]
            /\ SetPc(p, "execute_macro")
            /\ event' = NoEvent
            /\ UNCHANGED req

\* a caller's macros.read().await is granted
macros_read(p) ==
    /\ pc[p] \in ReadWaiters
    /\ CanRead(macros_lock)
    /\ CASE pc[p] = "update_active_combos" -> update_active_combos(p)
         [] pc[p] = "get_macro" -> get_macro_body(p)
         [] pc[p] = "check_macro_triggers" -> check_macro_triggers(p)
         [] pc[p] = "list_macros" -> list_macros_find(p)
    /\ UNCHANGED << injector, macros, recording, executing, tasks, daemon_vars, ext_vars,
                    input_log >>

----------------------------------------------------------------------------
(* Macro engine: playback *)

\* how execute_macro returns to its caller: the library caller gets the result,
\* check_macro_triggers goes on with its loop or passes the error up (the `?`),
\* the TestMacro / ExecuteMacro handler answers Ack or Error
execute_return(p, result, msg) ==
    /\ cur' = [cur EXCEPT ![p] = None]
    /\ ret' = [ret EXCEPT ![p] = ""]
    /\ CASE ret[p] = "check_macro_triggers" /\ result = "Ok" ->
              /\ SetPc(p, "cmt_loop")
              /\ event' = NoEvent
              /\ UNCHANGED << macros_lock, todo, req >>
         [] ret[p] = "check_macro_triggers" /\ result # "Ok" ->
              /\ SetPc(p, "idle")
              /\ macros_lock' = [macros_lock EXCEPT !.readers = @ \ {p}]
              /\ todo' = [todo EXCEPT ![p] = {}]
              /\ event' = Returned(req[p], "Err", msg)
              /\ req' = [req EXCEPT ![p] = NoReq]
         [] ret[p] = "ipc" ->
              /\ SetPc(p, "idle")
              /\ event' = IF result = "Ok" THEN Returned(req[p], "Ack", msg)
                          ELSE Returned(req[p], "Error", "Failed to execute macro")
              /\ req' = [req EXCEPT ![p] = NoReq]
              /\ UNCHANGED << macros_lock, todo >>
         [] OTHER ->
              /\ SetPc(p, "idle")
              /\ event' = Returned(req[p], result, msg)
              /\ req' = [req EXCEPT ![p] = NoReq]
              /\ UNCHANGED << macros_lock, todo >>

\* execute_macro is called through the library API
execute_macro_call(p, m) ==
    /\ pc[p] = "idle"
    /\ SetPc(p, "execute_macro")
    /\ cur' = [cur EXCEPT ![p] = Some(m)]
    /\ ret' = [ret EXCEPT ![p] = "caller"]
    /\ req' = [req EXCEPT ![p] = Ev("execute_macro", m.name, "", 0, Some(m), "", "")]
    /\ event' = NoEvent
    /\ UNCHANGED << engine_vars, recording, daemon_vars, ext_vars, todo, input_log >>

\* execute_macro: the injector test, and the already-executing test made under
\* executing.read(), which is released before the insert
execute_macro(p) ==
    /\ pc[p] = "execute_macro"
    /\ IF ~injector
       THEN execute_return(p, "Err", "No injector available")
       ELSE IF cur[p][1].name \in DOMAIN executing
       THEN execute_return(p, "Ok", "already executing")
       ELSE /\ SetPc(p, "execute_insert")
            /\ event' = NoEvent
            /\ UNCHANGED << macros_lock, cur, todo, ret, req >>
    /\ UNCHANGED << injector, macros, active_combos, recording, executing, tasks,
                    daemon_vars, ext_vars, input_log >>

NewTask(m) ==
    [name |-> m.name, actions |-> m.actions, i |-> 1, phase |-> "sample", stop |-> FALSE]

\* execute_macro: the insert under executing.write() and the spawn of the task
execute_insert(p) ==
    /\ pc[p] = "execute_insert"
    /\ Len(tasks) < MaxTasks
    /\ executing' = Insert(executing, cur[p][1].name, Len(tasks) + 1)
    /\ tasks' = Append(tasks, NewTask(cur[p][1]))
    /\ execute_return(p, "Ok", "started")
    /\ UNCHANGED << injector, macros, active_combos, recording, daemon_vars, ext_vars, input_log >>

\* the loop of check_macro_triggers over the macros, one entry per step
cmt_loop(p) ==
    /\ pc[p] = "cmt_loop"
    /\ IF todo[p] = {}
       THEN /\ SetPc(p, "idle")
            /\ macros_lock' = [macros_lock EXCEPT !.readers = @ \ {p}]
            /\ event' = Returned(req[p], "Ok", "")
            /\ req' = [req EXCEPT ![p] = NoReq]
            /\ UNCHANGED << cur, todo, ret >>
       ELSE /\ \E m \in todo[p] :
                 /\ todo' = [todo EXCEPT ![p] = @ \ {m}]
                 /\ cur' = [cur EXCEPT ![p] = Some(m)]
            /\ ret' = [ret EXCEPT ![p] = "check_macro_triggers"]
            /\ SetPc(p, "execute_macro")
            /\ event' = NoEvent
            /\ UNCHANGED << macros_lock, req >>
    /\ UNCHANGED << injector, macros, active_combos, recording, executing, tasks,
                    daemon_vars, ext_vars, input_log >>

\* stop_macro: under executing.write(), set the flag of the entry and remove it
stop_macro(p, name) ==
    /\ pc[p] = "idle"
    /\ IF name \in DOMAIN executing
       THEN /\ tasks' = [tasks EXCEPT ![executing[name]].stop = TRUE]
            /\ executing' = Remove(executing, name)
            /\ event' = Ev("stop_macro", name, "", 0, None, "Ok(true)", "")
       ELSE /\ event' = Ev("stop_macro", name, "", 0, None, "Ok(false)", "")
            /\ UNCHANGED << tasks, executing >>
    /\ UNCHANGED << injector, macros, macros_lock, active_combos, recording,
                    daemon_vars, ext_vars, caller_vars, input_log >>

\* a playback task that never looks at its cancellation flag
task_step_unsampled(t) ==
    /\ t \in 1..Len(tasks)
    /\ tasks[t].phase # "done"
    /\ tasks' = [tasks EXCEPT ![t] =
          IF @.phase = "sample"
          THEN IF @.i > Len(@.actions)
               THEN [@ EXCEPT !.phase = "done", !.i = 0, !.stop = FALSE]
               ELSE [@ EXCEPT !.phase = "act"]
          ELSE [@ EXCEPT !.phase = "sample", !.i = @ + 1]]
    /\ event' = NoEvent
    /\ UNCHANGED << injector, macros, macros_lock, active_combos, recording, executing,
                    daemon_vars, ext_vars, caller_vars, input_log >>

\* one step of a spawned playback task: sample the flag before the next action,
\* or perform the action (the injector call taken whole; its single writes are
\* the steps of write_event); the task ends without touching the execution table
task_step(t) ==
    /\ t \in 1..Len(tasks)
    /\ tasks[t].phase # "done"
    /\ tasks' = [tasks EXCEPT ![t] =
          IF @.phase = "sample"
          THEN IF @.i > Len(@.actions) \/ @.stop
               THEN [@ EXCEPT !.phase = "done", !.i = 0, !.stop = FALSE]
               ELSE [@ EXCEPT !.phase = "act"]
          ELSE [@ EXCEPT !.phase = "sample", !.i = @ + 1]]
    /\ event' = NoEvent
    /\ UNCHANGED << injector, macros, macros_lock, active_combos, recording, executing,
                    daemon_vars, ext_vars, caller_vars, input_log >>

----------------------------------------------------------------------------
(* Macro engine: recording *)

\* a recorder that takes the events of every device
should_record_any(macro_entry, device_path) == TRUE

\* the device test of process_input_event
should_record(macro_entry, device_path) ==
    IF macro_entry.device_id # None
    THEN macro_entry.device_id[1] = device_path
    ELSE TRUE

\* the action process_input_event pushes
recorded_action(key_code, is_pressed) ==
    IF is_pressed THEN KeyPress(key_code) ELSE KeyRelease(key_code)

\* a start_recording without the is_some test
start_recording_overwrite(rec, name, device_path) ==
    [ok |-> TRUE, recording |-> Some(MacroEntry(name, {}, << >>, Some(device_path), TRUE))]

\* start_recording: its result and the recording slot it leaves
start_recording_result(rec, name, device_path) ==
    IF rec # None
    THEN [ok |-> FALSE, recording |-> rec]
    ELSE [ok |-> TRUE, recording |-> Some(MacroEntry(name, {}, << >>, Some(device_path), TRUE))]

\* a stop_recording that returns the macro and leaves it in the slot
stop_recording_keep(rec) == [entry |-> rec, recording |-> rec]

\* stop_recording: the entry it returns (recording.take()) and the slot it leaves
stop_recording_result(rec) == [entry |-> rec, recording |-> None]

\* start_recording called through the library API
start_recording(p, name, device_path) ==
    LET r == start_recording_result(recording, name, device_path) IN
    /\ pc[p] = "idle"
    /\ recording' = r.recording
    /\ input_log' = IF r.ok THEN << >> ELSE input_log
    /\ event' = IF r.ok
                THEN Ev("start_recording", name, device_path, 0, None, "Ok", "")
                ELSE Ev("start_recording", name, device_path, 0, None,
                        "Err", "Already recording a macro")
    /\ UNCHANGED << engine_vars, daemon_vars, ext_vars, caller_vars >>

\* stop_recording called through the library API
stop_recording(p) ==
    LET r == stop_recording_result(recording) IN
    /\ pc[p] = "idle"
    /\ recording' = r.recording
    /\ input_log' = << >>
    /\ event' = IF r.entry = None
                THEN Ev("stop_recording", "", "", 0, None, "Ok(None)", "")
                ELSE Ev("stop_recording", r.entry[1].name, "", 0, r.entry, "Ok(Some)", "")
    /\ UNCHANGED << engine_vars, daemon_vars, ext_vars, caller_vars >>

\* how an event is named in the history
Kind(is_pressed) == IF is_pressed THEN "press" ELSE "release"

\* a matcher that is run for releases too
triggers_checked_always(is_pressed) == TRUE

\* `if is_pressed { self.check_macro_triggers(..) }`
triggers_checked(is_pressed) == is_pressed

\* process_input_event: record the event, or (a press outside a recording of
\* its device) go on to check_macro_triggers, which awaits macros.read()
forward_input_event(p, key_code, is_pressed, device_path) ==
    /\ pc[p] = "idle"
    /\ Len(input_log) < MaxEvents
    /\ input_log' = IF recording # None
                    THEN Append(input_log, [device |-> device_path, code |-> key_code,
                                            pressed |-> is_pressed])
                    ELSE input_log
    /\ IF recording # None /\ should_record(recording[1], device_path)
       THEN /\ recording' = Some([recording[1] EXCEPT !.actions =
                                    Append(@, recorded_action(key_code, is_pressed))])
            /\ event' = Ev("process_input_event", Kind(is_pressed), device_path,
                           key_code, None, "Ok", "recorded")
            /\ UNCHANGED << pc, req >>
       ELSE IF triggers_checked(is_pressed)
       THEN /\ SetPc(p, "check_macro_triggers")
            /\ req' = [req EXCEPT ![p] =
                         Ev("process_input_event", Kind(is_pressed), device_path,
                            key_code, None, "", "")]
            /\ event' = NoEvent
            /\ UNCHANGED recording
       ELSE /\ event' = Ev("process_input_event", Kind(is_pressed), device_path,
                           key_code, None, "Ok", "")
            /\ UNCHANGED << recording, pc, req >>
    /\ UNCHANGED << engine_vars, daemon_vars, config_vars, security_vars, conn_vars, injector_vars,
                    cur, todo, ret >>

\* process_input_event called by a user of the engine
process_input_event(p, key_code, is_pressed, device_path) ==
    /\ forward_input_event(p, key_code, is_pressed, device_path)
    /\ UNCHANGED device_vars

----------------------------------------------------------------------------
(* The macro engine used through its public API *)

InitCallers ==
    /\ pc = [p \in Procs |-> "idle"]
    /\ cur = [p \in Procs |-> None]
    /\ todo = [p \in Procs |-> {}]
    /\ ret = [p \in Procs |-> ""]
    /\ req = [p \in Procs |-> NoReq]
    /\ input_log = << >>
    /\ event = NoEvent

\* ConfigManager::new(): both maps empty, both locks free
InitConfigManager ==
    /\ config_macros = EmptyMap
    /\ cmacros_lock = [writer |-> {}, readers |-> {}]
    /\ profiles = EmptyMap
    /\ profiles_lock = [writer |-> {}, readers |-> {}]

\* an empty profile directory
NoProfileFiles == profile_files = EmptyMap

\* no configuration, cache or macros file written yet
FreshDisk == config_file = "missing" /\ cache_file = None /\ macros_file = None

\* SecurityManager::new(token_auth_enabled)
InitSecurityManager(enabled) ==
    /\ token_auth = enabled
    /\ auth_tokens = EmptyMap
    /\ now = 0
    /\ issued = EmptyMap

\* no connection has been served
NoConn == [client |-> {}, len |-> 0, payload_read |-> 0, responses |-> 0,
           dispatched |-> FALSE]
InitConn ==
    /\ authed = {}
    /\ conn = NoConn

\* DeviceManager::new(): nothing grabbed, no worker, an empty channel
InitDeviceManager ==
    /\ grabbed_devices = EmptyMap
    /\ kernel_grab = {}
    /\ workers = << >>
    /\ channel = << >>
    /\ kernel_events = [d \in DevicePaths |-> 0]
    /\ read_log = [d \in DevicePaths |-> << >>]
    /\ delivered = [d \in DevicePaths |-> << >>]

\* UinputInjector: nothing written to the virtual device, nothing spawned
InitInjector ==
    /\ uinput = << >>
    /\ inject_errors = {}
    /\ spawned = << >>

\* the components outside the engine, as their constructors leave them
InitExt ==
    /\ InitConfigManager
    /\ NoProfileFiles
    /\ FreshDisk
    /\ InitSecurityManager(FALSE)
    /\ InitConn
    /\ InitDeviceManager
    /\ InitInjector

\* MacroEngine::new() (no injector) or MacroEngine::with_injector(); DaemonState::new()
InitEngine ==
    /\ injector \in BOOLEAN
    /\ macros = EmptyMap
    /\ macros_lock = [writer |-> {}, readers |-> {}]
    /\ active_combos = {}
    /\ recording = None
    /\ executing = EmptyMap
    /\ tasks = << >>
    /\ devices = {}
    /\ state_macros = EmptyMap
    /\ active_recording = None
    /\ InitCallers
    /\ InitExt

NextEngine ==
    \/ \E p \in Procs, m \in MapEntries : add_macro(p, m)
    \/ \E p \in Procs, n \in MapNames : remove_macro(p, n)
    \/ \E p \in Procs, n \in MapNames : get_macro(p, n)
    \/ \E p \in Procs : macros_read(p)
    \/ \E p \in Procs, c \in KeyCodes, d \in TriggerDevices :
          process_input_event(p, c, TRUE, d)
    \/ \E p \in Procs : cmt_loop(p)
    \/ \E p \in Procs, m \in PlayEntries : execute_macro_call(p, m)
    \/ \E p \in Procs : execute_macro(p)
    \/ \E p \in Procs : execute_insert(p)
    \/ \E p \in Procs, n \in MacroNames : stop_macro(p, n)
    \/ \E t \in 1..MaxTasks : task_step(t)

SpecEngine == InitEngine /\ [][NextEngine]_vars

----------------------------------------------------------------------------
(* Claims about playback and the macro map, under SpecEngine *)

\* C1: the number of entries of the execution table never exceeds
\* max_concurrent_macros.
C1_ExecutionCountBounded ==
    Cardinality(DOMAIN executing) <= max_concurrent_macros

Running(t) == tasks[t].phase # "done"

\* C2: no two playback tasks for the same macro name run at the same time.
C2_OnePlaybackPerName ==
    \A t1, t2 \in 1..Len(tasks) :
        (t1 # t2 /\ tasks[t1].name = tasks[t2].name) => ~(Running(t1) /\ Running(t2))

\* C3: an execution whose task has run its last action, or has seen its
\* cancellation flag, is no longer in the execution table.
C3_FinishedExecutionRemoved ==
    \A n \in DOMAIN executing : Running(executing[n])

\* C4: no caller waits for the read half of the macro-map lock while it holds
\* the write half itself, so add_macro and remove_macro return.
C4_NoSelfDeadlock ==
    \A p \in Procs : ~(pc[p] = "update_active_combos" /\ macros_lock.writer = {p})

----------------------------------------------------------------------------
(* The recording state machine, driven by callers and by the event dispatcher *)

NextRec ==
    \/ \E p \in Procs, n \in MacroNames, d \in DevicePaths : start_recording(p, n, d)
    \/ \E p \in Procs : stop_recording(p)
    \/ \E p \in Procs, c \in KeyCodes, b \in BOOLEAN, d \in DevicePaths :
          process_input_event(p, c, b, d)
    \/ \E p \in Procs : macros_read(p)
    \/ \E p \in Procs : cmt_loop(p)

SpecRec == InitEngine /\ [][NextRec]_vars

\* C5: start_recording while a recording exists returns an error and leaves
\* the existing session (name, target device, recorded actions) as it was.
C5_StartWhileRecording ==
    [][ (event'.op = "start_recording" /\ recording # None)
          => (event'.resp = "Err" /\ recording' = recording) ]_vars

C5_Witness ==
    /\ event.op = "start_recording"
    /\ event.resp = "Err"
    /\ recording # None
    /\ recording[1].name # event.name
    /\ recording[1].device_id # Some(event.device)
    /\ Len(recording[1].actions) > 0

\* the actions the events of device_path in log stand for, in arrival order
ExpectedActions(log, device_path) ==
    LET own == SelectSeq(log, LAMBDA e : e.device = device_path) IN
    [i \in 1..Len(own) |->
        [type |-> IF own[i].pressed THEN "KeyPress" ELSE "KeyRelease",
         code |-> own[i].code]]

\* C6: the action list stop_recording returns is, in arrival order, the
\* KeyPress / KeyRelease of exactly the events of the target device processed
\* since start_recording.
C6_RecordedActions ==
    [][ (event'.op = "stop_recording" /\ recording # None)
          => /\ event'.resp = "Ok(Some)"
             /\ event'.entry[1].actions =
                  ExpectedActions(input_log, recording[1].device_id[1]) ]_vars

C6_Witness ==
    /\ event.op = "stop_recording"
    /\ event.resp = "Ok(Some)"
    /\ event.entry[1].actions = << KeyPress(30), KeyRelease(30) >>

\* a recording that saw an event of another device between two of its own
C6_WitnessOtherDevice ==
    /\ recording # None
    /\ Len(input_log) > Len(recording[1].actions)
    /\ Len(recording[1].actions) > 0

----------------------------------------------------------------------------
(* Request handlers of the IPC server (handle_request) *)

\* the orders in which a HashMap's values may be collected into a Vec
Enumerations(map) ==
    LET n == Cardinality(DOMAIN map) IN
    { [i \in 1..n |-> map[f[i]]] :
        f \in { g \in [1..n -> DOMAIN map] : \A i, j \in 1..n : g[i] = g[j] => i = j } }

\* an insert that keeps an entry already stored under the name
state_insert_if_absent(map, m) == IF m.name \in DOMAIN map THEN map ELSE Insert(map, m.name, m)

\* macros.insert(macro_entry.name.clone(), macro_entry) on the daemon state
state_insert(map, m) == Insert(map, m.name, m)

\* a device test that accepts every path
device_exists_any(devs, device_path) == TRUE

\* devices.iter().any(|d| d.path.to_string_lossy() == device_path)
device_exists(devs, device_path) == device_path \in devs

set_macro(p, device_path, m) ==
    /\ pc[p] = "idle"
    /\ IF ~device_exists(devices, device_path)
       THEN /\ event' = Ev("SetMacro", m.name, device_path, 0, Some(m),
                           "Error", "Device not found")
            /\ UNCHANGED state_macros
       ELSE /\ state_macros' = state_insert(state_macros, m)
            /\ event' = Ev("SetMacro", m.name, device_path, 0, Some(m), "Ack", "")
    /\ UNCHANGED << engine_vars, recording, devices, ext_vars, active_recording, caller_vars,
                    input_log >>

\* a removal that empties the map
remove_all(map, name) == IF name \in DOMAIN map THEN EmptyMap ELSE map

\* macros.remove(&name)
state_remove(map, name) == Remove(map, name)

delete_macro(p, name) ==
    LET original_len == Cardinality(DOMAIN state_macros)
        after == state_remove(state_macros, name) IN
    /\ pc[p] = "idle"
    /\ state_macros' = after
    /\ event' = IF Cardinality(DOMAIN after) = original_len
                THEN Ev("DeleteMacro", name, "", 0, None, "Error", "Macro not found")
                ELSE Ev("DeleteMacro", name, "", 0, None, "Ack", "")
    /\ UNCHANGED << engine_vars, recording, devices, ext_vars, active_recording, caller_vars,
                    input_log >>

\* ListMacros: the values of the daemon state's macro map
list_macros_request(p) ==
    /\ pc[p] = "idle"
    /\ \E list \in Enumerations(state_macros) :
          event' = Ev("ListMacros", "", "", 0, list, "Macros", "")
    /\ UNCHANGED << engine_vars, recording, daemon_vars, ext_vars, caller_vars, input_log >>

\* RecordMacro up to its state.write().await
record_macro(p, device_path, name) ==
    LET r == start_recording_result(recording, name, device_path) IN
    /\ pc[p] = "idle"
    /\ recording' = r.recording
    /\ input_log' = IF r.ok THEN << >> ELSE input_log
    /\ IF r.ok
       THEN /\ SetPc(p, "record_state")
            /\ req' = [req EXCEPT ![p] = Ev("RecordMacro", name, device_path, 0, None, "", "")]
            /\ event' = NoEvent
       ELSE /\ event' = Ev("RecordMacro", name, device_path, 0, None, "Error",
                           "Failed to start recording: Already recording a macro")
            /\ UNCHANGED << pc, req >>
    /\ UNCHANGED << engine_vars, daemon_vars, ext_vars, cur, todo, ret >>

\* RecordMacro under state.write(): fill the daemon state's recording slot
record_state(p) ==
    /\ pc[p] = "record_state"
    /\ active_recording' = Some(<< req[p].name, req[p].device >>)
    /\ event' = Returned(req[p], "RecordingStarted", "")
    /\ SetPc(p, "idle")
    /\ req' = [req EXCEPT ![p] = NoReq]
    /\ UNCHANGED << engine_vars, recording, devices, ext_vars, state_macros, cur, todo, ret,
                    input_log >>

\* StopRecording up to its state.write().await
stop_recording_request(p) ==
    LET r == stop_recording_result(recording) IN
    /\ pc[p] = "idle"
    /\ recording' = r.recording
    /\ input_log' = << >>
    /\ SetPc(p, "stop_state")
    /\ req' = [req EXCEPT ![p] = Ev("StopRecording", "", "", 0, r.entry, "", "")]
    /\ event' = NoEvent
    /\ UNCHANGED << engine_vars, daemon_vars, ext_vars, cur, todo, ret >>

\* StopRecording under state.write(): clear the slot, store the macro, answer
stop_state(p) ==
    /\ pc[p] = "stop_state"
    /\ active_recording' = None
    /\ IF req[p].entry # None
       THEN /\ state_macros' = state_insert(state_macros, req[p].entry[1])
            /\ event' = Returned(req[p], "RecordingStopped", "")
       ELSE /\ event' = Returned(req[p], "Error",
                                 "Recording stopped but no macro was created")
            /\ UNCHANGED state_macros
    /\ SetPc(p, "idle")
    /\ req' = [req EXCEPT ![p] = NoReq]
    /\ UNCHANGED << engine_vars, recording, devices, ext_vars, cur, todo, ret, input_log >>

\* TestMacro / ExecuteMacro up to the macros.read().await of list_macros; the
\* lookup is list_macros_find, the submission execute_macro
test_macro(p, op, name) ==
    /\ pc[p] = "idle"
    /\ SetPc(p, "list_macros")
    /\ req' = [req EXCEPT ![p] = Ev(op, name, "", 0, None, "", "")]
    /\ event' = NoEvent
    /\ UNCHANGED << engine_vars, recording, daemon_vars, ext_vars, cur, todo, ret, input_log >>

\* the daemon after startup with no default profile: the engine has its
\* injector, its macro map is empty, discovery has filled the device snapshot
InitDaemonState ==
    /\ injector = TRUE
    /\ macros = EmptyMap
    /\ macros_lock = [writer |-> {}, readers |-> {}]
    /\ active_combos = {}
    /\ recording = None
    /\ executing = EmptyMap
    /\ tasks = << >>
    /\ devices \in SUBSET DevicePaths
    /\ state_macros = EmptyMap
    /\ active_recording = None
    /\ InitCallers

InitDaemon == InitDaemonState /\ InitExt

\* The engine's macro map is empty while the server runs (nothing but the
\* startup's add_macro fills it), so the lookup of TestMacro / ExecuteMacro
\* never reaches execute_macro: the specifications below leave its steps out.

\* requests on the macro map of the daemon state
NextIpc ==
    \/ \E p \in Procs, d \in DevicePaths, m \in InputEntries : set_macro(p, d, m)
    \/ \E p \in Procs, n \in MacroNames : delete_macro(p, n)
    \/ \E p \in Procs : list_macros_request(p)
    \/ \E p \in Procs, op \in {"TestMacro", "ExecuteMacro"}, n \in MacroNames :
          test_macro(p, op, n)
    \/ \E p \in Procs : macros_read(p)

SpecIpc == InitDaemon /\ [][NextIpc]_vars

\* recording requests; no device is grabbed, so the dispatcher has no events
NextRecIpc ==
    \/ \E p \in Procs, d \in DevicePaths, n \in MacroNames : record_macro(p, d, n)
    \/ \E p \in Procs : record_state(p)
    \/ \E p \in Procs : stop_recording_request(p)
    \/ \E p \in Procs : stop_state(p)
    \/ \E p \in Procs : list_macros_request(p)

InitRecIpc == InitDaemon /\ devices = DevicePaths

SpecRecIpc == InitRecIpc /\ [][NextRecIpc]_vars

----------------------------------------------------------------------------
(* Claims about the request handlers *)

\* what ListMacros answers for a macro map: its entries, keyed by their names
Listed(map) == { map[k] : k \in DOMAIN map }
ListedNames(map) == { m.name : m \in Listed(map) }

C8_ListedMacrosExecutable ==
    (event.op \in {"TestMacro", "ExecuteMacro"})
      => /\ (event.name \in ListedNames(state_macros)) => event.resp = "Ack"
         /\ (event.resp = "Error" /\ event.msg = "Macro not found")
              => event.name \notin ListedNames(state_macros)

C9_WitnessReplace ==
    /\ event.op = "SetMacro"
    /\ event.resp = "Ack"
    /\ Cardinality(DOMAIN state_macros) = 2
    /\ state_macros[event.name].actions = << KeyPress(30) >>

\* C10: DeleteMacro(n) answers Ack and removes exactly the entry n when n is
\* in the macro map; otherwise it answers Error (not found) and the map is
\* unchanged; so a DeleteMacro(n) right after a successful one answers Error.
C10_DeleteMacro ==
    [][ (event'.op = "DeleteMacro") =>
          /\ IF event'.name \in DOMAIN state_macros
             THEN /\ event'.resp = "Ack"
                  /\ DOMAIN state_macros' = DOMAIN state_macros \ {event'.name}
                  /\ \A k \in DOMAIN state_macros' : state_macros'[k] = state_macros[k]
             ELSE /\ event'.resp = "Error"
                  /\ event'.msg = "Macro not found"
                  /\ state_macros' = state_macros
          /\ (event.op = "DeleteMacro" /\ event.resp = "Ack" /\ event.name = event'.name)
               => event'.resp = "Error" ]_vars

C10_Witness ==
    /\ event.op = "DeleteMacro"
    /\ event.resp = "Ack"
    /\ state_macros # EmptyMap

----------------------------------------------------------------------------
(* Profiles: ConfigManager and the SaveProfile / LoadProfile requests *)

ProfileNames == {"p1"}

Profile(n, ms) == [name |-> n, macros |-> ms]

\* the macro maps a profile file can hold: serde_yaml reads any mapping of
\* strings to entries, whatever the name inside each entry
FileMacroMaps == UNION { [K -> PlayEntries] : K \in SUBSET MacroNames }

\* the contents of the profile directory when the daemon starts
DiskImages ==
    {EmptyMap} \cup
    { [n \in N |-> Profile(n, ms)] : N \in (SUBSET ProfileNames) \ {{}}, ms \in FileMacroMaps }

\* for (name, macro_entry) in &profile.macros { macros.insert(name, entry) }
profile_merge(map, pm) ==
    [k \in DOMAIN map \cup DOMAIN pm |-> IF k \in DOMAIN pm THEN pm[k] ELSE map[k]]

\* LoadProfile up to load_profile's first lock: the file is looked up and read
load_profile_request(p, name) ==
    /\ pc[p] = "idle"
    /\ IF name \notin DOMAIN profile_files
       THEN /\ event' = Ev("LoadProfile", name, "", 0, None, "Error",
                           "Failed to load profile")
            /\ UNCHANGED << pc, req >>
       ELSE /\ SetPc(p, "load_profile_profiles")
            /\ req' = [req EXCEPT ![p] =
                         Ev("LoadProfile", name, "", 0, Some(profile_files[name]), "", "")]
            /\ event' = NoEvent
    /\ UNCHANGED << engine_vars, recording, daemon_vars, security_vars, conn_vars, injector_vars,
                    device_vars, config_vars, cur, todo, ret,
                    input_log >>

\* load_profile: profiles.write().await is granted; the profile goes into the
\* table under the requested name
load_profile_profiles(p) ==
    /\ pc[p] = "load_profile_profiles"
    /\ CanWrite(profiles_lock)
    /\ profiles_lock' = [profiles_lock EXCEPT !.writer = {p}]
    /\ profiles' = Insert(profiles, req[p].name, req[p].entry[1])
    /\ SetPc(p, "load_profile_macros")
    /\ event' = NoEvent
    /\ UNCHANGED << engine_vars, recording, daemon_vars, security_vars, conn_vars, injector_vars,
                    device_vars, config_macros, cmacros_lock,
                    profile_files, disk_vars, cur, todo, ret, req, input_log >>

\* load_profile: macros.write().await is granted; the merge, the return (both
\* guards dropped) and the handler's ProfileLoaded response
load_profile_macros(p) ==
    /\ pc[p] = "load_profile_macros"
    /\ CanWrite(cmacros_lock)
    /\ config_macros' = profile_merge(config_macros, req[p].entry[1].macros)
    /\ profiles_lock' = [profiles_lock EXCEPT !.writer = {}]
    /\ event' = Ev("LoadProfile", req[p].name, "",
                   Cardinality(DOMAIN req[p].entry[1].macros), req[p].entry,
                   "ProfileLoaded", "")
    /\ SetPc(p, "idle")
    /\ req' = [req EXCEPT ![p] = NoReq]
    /\ UNCHANGED << engine_vars, recording, daemon_vars, security_vars, conn_vars, injector_vars,
                    device_vars, cmacros_lock, profiles,
                    profile_files, disk_vars, cur, todo, ret, input_log >>

\* SaveProfile up to save_current_macros_as_profile's lock: the count is
\* taken from the daemon state's macro map
save_profile_request(p, name) ==
    /\ pc[p] = "idle"
    /\ SetPc(p, "save_profile_macros")
    /\ req' = [req EXCEPT ![p] =
                 Ev("SaveProfile", name, "", Cardinality(DOMAIN state_macros), None, "", "")]
    /\ event' = NoEvent
    /\ UNCHANGED << engine_vars, recording, daemon_vars, security_vars, conn_vars, injector_vars,
                    device_vars, config_vars, cur, todo, ret,
                    input_log >>

\* save_current_macros_as_profile: macros.read().await is granted and kept;
\* save_profile writes the file
save_profile_macros(p) ==
    /\ pc[p] = "save_profile_macros"
    /\ CanRead(cmacros_lock)
    /\ cmacros_lock' = [cmacros_lock EXCEPT !.readers = @ \cup {p}]
    /\ req' = [req EXCEPT ![p].entry = Some(Profile(req[p].name, config_macros))]
    /\ profile_files' = Insert(profile_files, req[p].name,
                               Profile(req[p].name, config_macros))
    /\ SetPc(p, "save_profile_profiles")
    /\ event' = NoEvent
    /\ UNCHANGED << engine_vars, recording, daemon_vars, security_vars, conn_vars, injector_vars,
                    device_vars, config_macros, profiles,
                    profiles_lock, disk_vars, cur, todo, ret, input_log >>

\* save_profile: profiles.write().await is granted; the insert, the return
\* (guards dropped) and the handler's ProfileSaved response
save_profile_profiles(p) ==
    /\ pc[p] = "save_profile_profiles"
    /\ CanWrite(profiles_lock)
    /\ profiles' = Insert(profiles, req[p].name, req[p].entry[1])
    /\ cmacros_lock' = [cmacros_lock EXCEPT !.readers = @ \ {p}]
    /\ event' = Ev("SaveProfile", req[p].name, "", req[p].code, req[p].entry,
                   "ProfileSaved", "")
    /\ SetPc(p, "idle")
    /\ req' = [req EXCEPT ![p] = NoReq]
    /\ UNCHANGED << engine_vars, recording, daemon_vars, security_vars, conn_vars, injector_vars,
                    device_vars, config_macros, profiles_lock,
                    profile_files, disk_vars, cur, todo, ret, input_log >>

\* the daemon after startup, with any content of the profile directory
InitProfile ==
    /\ InitDaemonState
    /\ devices = DevicePaths
    /\ InitConfigManager
    /\ profile_files \in DiskImages
    /\ FreshDisk
    /\ InitSecurityManager(FALSE)
    /\ InitConn
    /\ InitDeviceManager
    /\ InitInjector

NextProfile ==
    \/ \E p \in Procs, d \in DevicePaths, m \in PlayEntries : set_macro(p, d, m)
    \/ \E p \in Procs, n \in MacroNames : delete_macro(p, n)
    \/ \E p \in Procs, n \in ProfileNames : load_profile_request(p, n)
    \/ \E p \in Procs : load_profile_profiles(p)
    \/ \E p \in Procs : load_profile_macros(p)
    \/ \E p \in Procs, n \in ProfileNames : save_profile_request(p, n)
    \/ \E p \in Procs : save_profile_macros(p)
    \/ \E p \in Procs : save_profile_profiles(p)

SpecProfile == InitProfile /\ [][NextProfile]_vars

WellKeyed(map) == \A k \in DOMAIN map : map[k].name = k
UniqueNames(map) == \A j, k \in DOMAIN map : map[j].name = map[k].name => j = k

\* C11: in the daemon state's macro map, in the configuration manager's
\* macro map and in every profile of the profile table, every entry is stored
\* under its own name and no two entries have the same name.
C11_UniqueMacroNames ==
    /\ WellKeyed(state_macros) /\ UniqueNames(state_macros)
    /\ WellKeyed(config_macros) /\ UniqueNames(config_macros)
    /\ \A n \in DOMAIN profiles :
          WellKeyed(profiles[n].macros) /\ UniqueNames(profiles[n].macros)

----------------------------------------------------------------------------
(* Authentication tokens: SecurityManager *)

\* Duration::from_secs(24 * 60 * 60); the model's clock counts hours
token_lifetime == 24

ClockSteps == {12}
MaxTime == 2 * token_lifetime

\* format!("razermapper-{:x}", hash) with the hash of the timestamp (the
\* process id and the manager's address are fixed while the daemon runs)
Token(timestamp) == [prefix |-> "razermapper-", hash |-> timestamp]
\* a string generate_auth_token never returns
InvalidToken == [prefix |-> "invalid-token", hash |-> 0]

\* tokens.retain(|_, expiration| *expiration > now)
cleanup_expired_tokens(tokens, t) ==
    [k \in { x \in DOMAIN tokens : tokens[x] > t } |-> tokens[k]]

\* generate_auth_token at time t: the token, and the table after the insert
\* and the cleanup
generate_auth_token_result(tokens, t) ==
    [token |-> Token(t),
     tokens |-> cleanup_expired_tokens(Insert(tokens, Token(t), t + token_lifetime), t)]

validate_auth_token_inclusive(enabled, tokens, t, token) ==
    ~enabled \/ (token \in DOMAIN tokens /\ tokens[token] >= t)

\* validate_auth_token at time t
validate_auth_token_result(enabled, tokens, t, token) ==
    ~enabled \/ (token \in DOMAIN tokens /\ tokens[token] > t)

\* the wall clock advances
tick(d) ==
    /\ now + d <= MaxTime
    /\ now' = now + d
    /\ event' = NoEvent
    /\ UNCHANGED << engine_vars, recording, daemon_vars, caller_vars, input_log,
                    config_vars, token_auth, auth_tokens, issued, conn_vars,
                    device_vars, injector_vars >>

----------------------------------------------------------------------------
(* The connection handler: framing, deserialization, the authentication   *)
(* gate and the dispatch to handle_request                                 *)

\* 1024 * 1024
MAX_MESSAGE_SIZE == 1048576

Req(op, name, device, entry) == Ev(op, name, device, 0, entry, "", "")

\* a payload bincode cannot decode into a Request
Garbage == Req("undecodable", "", "", None)

\* deserialize(&msg_buf): Err for an undecodable payload
deserialize(body) == IF body = Garbage THEN None ELSE Some(body)

\* the length prefixes around the limit; complete is FALSE when the client
\* closes before it has sent all the payload bytes it announced
FrameLens == { MAX_MESSAGE_SIZE - 1, MAX_MESSAGE_SIZE, MAX_MESSAGE_SIZE + 1 }
\* (a frame that is too long or cut short has its payload never looked at)
Frames(bodies) ==
    { f \in [len : FrameLens, complete : BOOLEAN, body : bodies \cup {Garbage}] :
        (f.len > MAX_MESSAGE_SIZE \/ ~f.complete) => f.body = Garbage }

ClientRequests ==
    { Req("GetDevices", "", "", None), Req("GenerateToken", "c1", "", None) }
    \cup { Req("SetMacro", "", d, Some(m)) : d \in DevicePaths, m \in MapEntries }
    \cup { Req("DeleteMacro", n, "", None) : n \in MapNames }
AuthenticateRequests(tokens) == { Req("Authenticate", "", "", Some(t)) : t \in tokens }

frame_too_large_inclusive(msg_len) == msg_len >= MAX_MESSAGE_SIZE

\* if msg_len > 1024 * 1024
frame_too_large(msg_len) == msg_len > MAX_MESSAGE_SIZE

auth_gate_open(enabled, request) == "dispatch"

\* the authentication gate of handle_client
auth_gate(enabled, request) ==
    IF ~enabled THEN "dispatch"
    ELSE IF request.op = "Authenticate" THEN "authenticate"
    ELSE IF request.op # "GenerateToken" THEN "reject"
    ELSE "dispatch"

\* what a request leaves behind: the response and the state it wrote
Outcome(resp, msg, entry, ms, tokens, iss) ==
    [resp |-> resp, msg |-> msg, entry |-> entry, macros |-> ms, tokens |-> tokens,
     issued |-> iss]
Answer(resp, msg, entry) == Outcome(resp, msg, entry, state_macros, auth_tokens, issued)

\* handle_request for the requests a client frame can carry
handle_request(request) ==
    CASE request.op = "GenerateToken" ->
           LET g == generate_auth_token_result(auth_tokens, now)
           IN  Outcome("Token", "", Some(g.token), state_macros, g.tokens,
                       Insert(issued, g.token, now))
      [] request.op = "Authenticate" ->
           IF validate_auth_token_result(token_auth, auth_tokens, now, request.entry[1])
           THEN Answer("Authenticated", "", request.entry)
           ELSE Answer("Error", "Invalid authentication token", request.entry)
      [] request.op = "GetDevices" -> Answer("Devices", "", Some(devices))
      [] request.op = "SetMacro" ->
           IF ~device_exists(devices, request.device)
           THEN Answer("Error", "Device not found", request.entry)
           ELSE Outcome("Ack", "", request.entry,
                        state_insert(state_macros, request.entry[1]), auth_tokens, issued)
      [] request.op = "DeleteMacro" ->
           IF Cardinality(DOMAIN state_remove(state_macros, request.name))
                = Cardinality(DOMAIN state_macros)
           THEN Answer("Error", "Macro not found", None)
           ELSE Outcome("Ack", "", None, state_remove(state_macros, request.name),
                        auth_tokens, issued)

Served(p, frame, read, n, disp) ==
    [client |-> {p}, len |-> frame.len, payload_read |-> read, responses |-> n,
     dispatched |-> disp]

\* handle_client: one connection, from the length prefix to the close
handle_client(p, frame) ==
    /\ pc[p] = "idle"
    /\ IF frame_too_large(frame.len)
       THEN /\ conn' = Served(p, frame, 0, 0, FALSE)
            /\ event' = Ev("handle_client", "", "", 0, None, "Closed", "Message too large")
            /\ UNCHANGED << state_macros, auth_tokens, issued, authed >>
       ELSE IF ~frame.complete
       THEN /\ conn' = Served(p, frame, frame.len - 1, 0, FALSE)
            /\ event' = Ev("handle_client", "", "", 0, None, "Closed", "early eof")
            /\ UNCHANGED << state_macros, auth_tokens, issued, authed >>
       ELSE IF deserialize(frame.body) = None
       THEN /\ conn' = Served(p, frame, frame.len, 0, FALSE)
            /\ event' = Ev("handle_client", "", "", 0, None, "Closed", "deserialize")
            /\ UNCHANGED << state_macros, auth_tokens, issued, authed >>
       ELSE LET request == deserialize(frame.body)[1]
                gate == auth_gate(token_auth, request)
            IN  CASE gate = "authenticate" ->
                       LET ok == validate_auth_token_result(token_auth, auth_tokens, now,
                                                            request.entry[1])
                       IN  /\ conn' = Served(p, frame, frame.len, 1, FALSE)
                           /\ event' = IF ok THEN Returned(request, "Authenticated", "")
                                       ELSE Returned(request, "Error",
                                                     "Invalid authentication token")
                           /\ authed' = IF ok THEN authed \cup {p} ELSE authed
                           /\ UNCHANGED << state_macros, auth_tokens, issued >>
                  [] gate = "reject" ->
                       /\ conn' = Served(p, frame, frame.len, 1, FALSE)
                       /\ event' = Returned(request, "Error", "Authentication required")
                       /\ UNCHANGED << state_macros, auth_tokens, issued, authed >>
                  [] gate = "dispatch" ->
                       LET out == handle_request(request)
                       IN  /\ conn' = Served(p, frame, frame.len, 1, TRUE)
                           /\ event' = [request EXCEPT !.resp = out.resp, !.msg = out.msg,
                                                       !.entry = out.entry]
                           /\ state_macros' = out.macros
                           /\ auth_tokens' = out.tokens
                           /\ issued' = out.issued
                           /\ authed' = IF out.resp = "Authenticated"
                                        THEN authed \cup {p} ELSE authed
    /\ UNCHANGED << engine_vars, recording, devices, active_recording, caller_vars,
                    input_log, config_vars, token_auth, now, device_vars, injector_vars >>

\* the daemon after startup, built with or without the token-auth feature
InitConnections ==
    /\ InitDaemonState
    /\ devices = TriggerDevices
    /\ InitConfigManager
    /\ NoProfileFiles
    /\ FreshDisk
    /\ \E enabled \in BOOLEAN : InitSecurityManager(enabled)
    /\ InitConn
    /\ InitDeviceManager
    /\ InitInjector

NextConnections ==
    \/ \E p \in Procs, frame \in Frames(ClientRequests) :
          handle_client(p, frame)
    \/ \E p \in Procs,
          frame \in Frames(AuthenticateRequests(DOMAIN issued \cup {InvalidToken})) :
          handle_client(p, frame)
    \/ \E d \in ClockSteps : tick(d)

SpecConnections == InitConnections /\ [][NextConnections]_vars

\* the state a request can change
RequestState ==
    << devices, state_macros, macros, config_macros, profiles, profile_files,
       recording, active_recording, grabbed_devices, kernel_grab, workers,
       executing, tasks >>

\* C12: with token auth enabled, a request other than GenerateToken and
\* Authenticate from a client with no successful Authenticate before is
\* answered Error("Authentication required") and is not dispatched: the device
\* list, the macro maps, the recording state, the profiles, the grab state and
\* the execution table are unchanged.
C12_AuthenticationRequired ==
    [][ ( /\ token_auth
          /\ event'.op \in {"GetDevices", "SetMacro", "DeleteMacro"}
          /\ conn'.client \cap authed = {} )
        => /\ event'.resp = "Error"
           /\ event'.msg = "Authentication required"
           /\ ~conn'.dispatched
           /\ conn'.responses = 1
           /\ RequestState' = RequestState ]_vars

\* a SetMacro for a device of the snapshot was turned away at the gate
C12_Witness ==
    /\ token_auth
    /\ event.op = "SetMacro"
    /\ event.device \in devices
    /\ event.msg = "Authentication required"
    /\ conn.client \cap authed = {}


\* C13: with token auth enabled, once a client's Authenticate(t) with a
\* generated token t was answered Authenticated, a GetDevices of that client
\* is answered with Devices and not with an authentication error.
C13_AuthenticatedGetDevices ==
    [][ ( /\ token_auth
          /\ event'.op = "GetDevices"
          /\ conn'.client # {}
          /\ conn'.client \subseteq authed )
        => event'.resp = "Devices" ]_vars


----------------------------------------------------------------------------
(* The security manager used through its own methods *)

generate_auth_token(p) ==
    /\ pc[p] = "idle"
    /\ LET g == generate_auth_token_result(auth_tokens, now)
       IN  /\ auth_tokens' = g.tokens
           /\ issued' = Insert(issued, g.token, now)
           /\ event' = Ev("generate_auth_token", "", "", 0, Some(g.token), "Ok", "")
    /\ UNCHANGED << engine_vars, recording, daemon_vars, caller_vars, input_log,
                    config_vars, token_auth, now, conn_vars, device_vars,
                    injector_vars >>

validate_auth_token(p, token) ==
    /\ pc[p] = "idle"
    /\ event' = Ev("validate_auth_token", "", "", 0, Some(token),
                   IF validate_auth_token_result(token_auth, auth_tokens, now, token)
                   THEN "true" ELSE "false", "")
    /\ UNCHANGED << engine_vars, recording, daemon_vars, caller_vars, input_log,
                    config_vars, security_vars, conn_vars, injector_vars, device_vars >>

NextTokens ==
    \/ \E p \in Procs : generate_auth_token(p)
    \/ \E p \in Procs, t \in DOMAIN issued \cup {Token(now), InvalidToken} :
          validate_auth_token(p, t)
    \/ \E d \in ClockSteps : tick(d)

SpecTokens == InitConnections /\ [][NextTokens]_vars

\* C14: with token auth enabled, validate_auth_token(t) returns true iff t
\* was returned by an earlier generate_auth_token and the time is strictly
\* before that token's expiration, 24 hours after it was issued.
C14_ValidateToken ==
    [][ (token_auth /\ event'.op = "validate_auth_token")
        => ( (event'.resp = "true")
               <=> ( /\ event'.entry[1] \in DOMAIN issued
                     /\ now < issued[event'.entry[1]] + token_lifetime ) ) ]_vars

\* a generated token was rejected at the very hour of its expiration
C14_Witness ==
    /\ token_auth
    /\ event.op = "validate_auth_token"
    /\ event.resp = "false"
    /\ event.entry[1] \in DOMAIN issued
    /\ now = issued[event.entry[1]] + token_lifetime

\* a generated token was accepted in the last checked hour before it expired
C14_WitnessValid ==
    /\ token_auth
    /\ event.op = "validate_auth_token"
    /\ event.resp = "true"
    /\ now > issued[event.entry[1]]


----------------------------------------------------------------------------
(* Claims about framing *)

\* C15: a frame whose length prefix is at most 1,048,576 is accepted and
\* exactly that many payload bytes are read; a frame with a longer prefix is
\* rejected before any payload byte is read: the connection is closed, no
\* request is dispatched and the daemon state is unchanged.
C15_FrameLengthLimit ==
    [][ (event'.op # "none")
        => IF conn'.len > 1048576
           THEN /\ conn'.payload_read = 0
                /\ conn'.responses = 0
                /\ ~conn'.dispatched
                /\ event'.resp = "Closed"
                /\ RequestState' = RequestState
                /\ auth_tokens' = auth_tokens
           ELSE /\ event'.msg # "Message too large"
                /\ (event'.msg # "early eof") => conn'.payload_read = conn'.len ]_vars

\* a frame of exactly the limit was read in full and its request dispatched
C15_Witness ==
    /\ conn.len = 1048576
    /\ conn.payload_read = 1048576
    /\ conn.dispatched

\* a frame one byte over the limit was turned away
C15_WitnessRejected ==
    /\ conn.len = 1048577
    /\ event.msg = "Message too large"

\* C16: a connection that delivers a complete frame within the size limit
\* gets exactly one response before it is closed, an Error response when the
\* payload is not a request.
C16_OneResponsePerFrame ==
    [][ (event'.op # "none" /\ conn'.len <= MAX_MESSAGE_SIZE /\ event'.msg # "early eof")
        => /\ conn'.responses = 1
           /\ event'.resp # "Closed" ]_vars


----------------------------------------------------------------------------
(* The device manager: grab_device and ungrab_device.  DeviceManager.devices *)
(* and DaemonState.devices are the same discovery snapshot (main.rs:76-79).  *)

MaxWorkers == 2

\* what the kernel answers to the open and the EVIOCGRAB of grab_device, and
\* to the EVIOCGRAB release of ungrab_device
GrabReplies == {"ok", "open_failed", "grab_refused"}
ReleaseReplies == {"ok", "release_failed"}

GrabbedDevice(device_path) == [path |-> device_path, grabbed |-> TRUE]

\* a reader task: its device, the events the kernel has queued on the handle
\* the task opened for itself, and the fetched events it has yet to send
Worker(device_path) == [device |-> device_path, inbox |-> << >>, pending |-> << >>]

GrabResult(resp, msg, table, spawn) ==
    [resp |-> resp, msg |-> msg, grabbed_devices |-> table, spawn |-> spawn]

grab_device_unchecked(devs, table, device_path, kernel) ==
    IF device_path \in DOMAIN table
    THEN GrabResult("Ok", "already grabbed", table, FALSE)
    ELSE IF device_path \notin devs
    THEN GrabResult("Err", "Device not found", table, FALSE)
    ELSE IF kernel = "open_failed"
    THEN GrabResult("Err", "Failed to open device", table, FALSE)
    ELSE GrabResult("Ok", "", Insert(table, device_path, GrabbedDevice(device_path)), TRUE)

\* grab_device: the result, the table afterwards, and whether a reader was started
grab_device_result(devs, table, device_path, kernel) ==
    IF device_path \in DOMAIN table
    THEN GrabResult("Ok", "already grabbed", table, FALSE)
    ELSE IF device_path \notin devs
    THEN GrabResult("Err", "Device not found", table, FALSE)
    ELSE IF kernel = "open_failed"
    THEN GrabResult("Err", "Failed to open device", table, FALSE)
    ELSE IF kernel = "grab_refused"
    THEN GrabResult("Err", "EVIOCGRAB failed", table, FALSE)
    ELSE GrabResult("Ok", "", Insert(table, device_path, GrabbedDevice(device_path)), TRUE)

\* grab_device; the event's name field holds the kernel's answer
grab_device(p, device_path, kernel) ==
    /\ pc[p] = "idle"
    /\ LET r == grab_device_result(devices, grabbed_devices, device_path, kernel)
           ioctl == /\ device_path \notin DOMAIN grabbed_devices
                    /\ device_path \in devices
                    /\ kernel # "open_failed"
       IN  /\ r.spawn => Len(workers) < MaxWorkers
           /\ grabbed_devices' = r.grabbed_devices
           /\ kernel_grab' = IF ioctl /\ kernel = "ok"
                             THEN kernel_grab \cup {device_path} ELSE kernel_grab
           /\ workers' = IF r.spawn
                         THEN Append(workers, Worker(device_path))
                         ELSE workers
           /\ event' = Ev("grab_device", kernel, device_path, 0, None, r.resp, r.msg)
    /\ UNCHANGED << engine_vars, recording, daemon_vars, caller_vars, input_log,
                    config_vars, security_vars, conn_vars, injector_vars, channel, kernel_events,
                    read_log, delivered >>

UngrabResult(resp, table) == [resp |-> resp, grabbed_devices |-> table]

ungrab_device_strict(table, device_path, kernel) ==
    IF device_path \in DOMAIN table /\ kernel = "ok"
    THEN UngrabResult("Ok", Remove(table, device_path))
    ELSE UngrabResult("Err", table)

\* ungrab_device: the entry is taken out of the table before the release is
\* asked for, and the result does not depend on the kernel's answer
ungrab_device_result(table, device_path, kernel) ==
    UngrabResult("Ok", Remove(table, device_path))

\* ungrab_device; dropping the removed entry closes its handle, which ends
\* the capture also when the release request failed
ungrab_device(p, device_path, kernel) ==
    /\ pc[p] = "idle"
    /\ LET r == ungrab_device_result(grabbed_devices, device_path, kernel)
       IN  /\ grabbed_devices' = r.grabbed_devices
           /\ kernel_grab' = IF device_path \in DOMAIN grabbed_devices
                                /\ device_path \notin DOMAIN r.grabbed_devices
                             THEN kernel_grab \ {device_path} ELSE kernel_grab
           /\ event' = Ev("ungrab_device", kernel, device_path, 0, None, r.resp, "")
    /\ UNCHANGED << engine_vars, recording, daemon_vars, caller_vars, input_log,
                    config_vars, security_vars, conn_vars, injector_vars, workers, channel,
                    kernel_events, read_log, delivered >>

\* a reader whose fetch_events fails (the device is gone) leaves its loop
worker_exit(w) ==
    /\ w \in DOMAIN workers
    /\ workers[w].pending = << >>
    /\ workers' = [i \in 1..(Len(workers) - 1) |->
                     IF i < w THEN workers[i] ELSE workers[i + 1]]
    /\ event' = NoEvent
    /\ UNCHANGED << engine_vars, recording, daemon_vars, caller_vars, input_log,
                    config_vars, security_vars, conn_vars, injector_vars, grabbed_devices,
                    kernel_grab, channel, kernel_events, read_log, delivered >>

\* the daemon after startup, with any discovery snapshot
InitGrab ==
    /\ InitDaemonState
    /\ InitExt

NextGrab ==
    \/ \E p \in Procs, d \in DevicePaths, k \in GrabReplies : grab_device(p, d, k)
    \/ \E p \in Procs, d \in DevicePaths, k \in ReleaseReplies : ungrab_device(p, d, k)
    \/ \E w \in 1..MaxWorkers : worker_exit(w)

SpecGrab == InitGrab /\ [][NextGrab]_vars

\* C17: grab_device(d) returns an error when d is already grabbed, when d is
\* not in the discovery snapshot and when the kernel refuses the capture, and
\* leaves the grabbed table and the event workers as they were.
C17_GrabErrors ==
    [][ ( /\ event'.op = "grab_device"
          /\ \/ event'.device \in DOMAIN grabbed_devices
             \/ event'.device \notin devices
             \/ event'.name # "ok" )
        => /\ event'.resp = "Err"
           /\ grabbed_devices' = grabbed_devices
           /\ workers' = workers ]_vars


\* C18: the grabbed table has one entry per device path, every entry has its
\* grab flag true, and the entries are exactly the devices the kernel holds in
\* capture for the daemon (captured, and not released since).
C18_GrabbedTable ==
    /\ \A d \in DOMAIN grabbed_devices :
          grabbed_devices[d].path = d /\ grabbed_devices[d].grabbed
    /\ DOMAIN grabbed_devices = kernel_grab

\* two devices are grabbed, each with its reader
C18_Witness ==
    /\ Cardinality(DOMAIN grabbed_devices) = 2
    /\ event.op = "grab_device"
    /\ event.resp = "Ok"
    /\ Len(workers) = 2

\* a device was released and is out of the table
C18_WitnessReleased ==
    /\ event.op = "ungrab_device"
    /\ event.device \notin DOMAIN grabbed_devices
    /\ Len(workers) > 0

\* C19: ungrab_device(d) takes d's entry out of the grabbed table when there
\* is one and returns success; for a device without an entry (never grabbed,
\* or ungrabbed before) it changes nothing and returns success; the same when
\* the kernel's release request fails.
C19_UngrabIdempotent ==
    [][ (event'.op = "ungrab_device")
        => /\ event'.resp = "Ok"
           /\ DOMAIN grabbed_devices' = DOMAIN grabbed_devices \ {event'.device}
           /\ \A d \in DOMAIN grabbed_devices' : grabbed_devices'[d] = grabbed_devices[d]
           /\ (event'.device \notin DOMAIN grabbed_devices)
                => /\ grabbed_devices' = grabbed_devices
                   /\ kernel_grab' = kernel_grab
                   /\ workers' = workers ]_vars

\* the second of two ungrabs of one device, the release failing both times
C19_Witness ==
    /\ event.op = "ungrab_device"
    /\ event.name = "release_failed"
    /\ event.resp = "Ok"
    /\ event.device \in devices
    /\ event.device \notin DOMAIN grabbed_devices
    /\ Len(workers) > 0

\* an ungrab whose release failed took the entry out
C19_WitnessRemoved ==
    /\ event.op = "ungrab_device"
    /\ event.name = "release_failed"
    /\ grabbed_devices # EmptyMap
    /\ event.device \notin DOMAIN grabbed_devices



----------------------------------------------------------------------------
(* The event path: kernel, readers, the channel and the dispatcher task *)

\* mpsc::channel(1000), scaled down
ChannelCapacity == 2
MaxKernelEvents == 2

\* the caller that runs the dispatcher task of main
Dispatcher == NProcs

\* the n-th key event of a device; its key code stands for its position
KeyEvent(device_path, n) == [device |-> device_path, key_code |-> n, pressed |-> TRUE]

\* the handles the kernel passes an event of a device to: the grabbing handle
\* alone while EVIOCGRAB is in force (that is the handle kept in
\* grabbed_devices, which no task reads), every open handle otherwise
receivers(table, d) ==
    IF d \in kernel_grab THEN {} ELSE { w \in DOMAIN table : table[w].device = d }

\* a device produces a key event
device_event(d) ==
    /\ kernel_events[d] < MaxKernelEvents
    /\ kernel_events' = [kernel_events EXCEPT ![d] = @ + 1]
    /\ workers' = [w \in DOMAIN workers |->
                     IF w \in receivers(workers, d)
                     THEN [workers[w] EXCEPT
                             !.inbox = Append(@, KeyEvent(d, kernel_events[d] + 1))]
                     ELSE workers[w]]
    /\ event' = NoEvent
    /\ UNCHANGED << engine_vars, recording, daemon_vars, caller_vars, input_log,
                    config_vars, security_vars, conn_vars, injector_vars, grabbed_devices,
                    kernel_grab, channel, read_log, delivered >>

\* fetch_events returns the events queued on the reader's handle
worker_read(w) ==
    /\ w \in DOMAIN workers
    /\ workers[w].pending = << >>
    /\ workers[w].inbox # << >>
    /\ workers' = [workers EXCEPT ![w].pending = workers[w].inbox,
                                  ![w].inbox = << >>]
    /\ read_log' = [read_log EXCEPT ![workers[w].device] = @ \o workers[w].inbox]
    /\ event' = NoEvent
    /\ UNCHANGED << engine_vars, recording, daemon_vars, caller_vars, input_log,
                    config_vars, security_vars, conn_vars, injector_vars, grabbed_devices,
                    kernel_grab, channel, kernel_events, delivered >>

\* rt.block_on(sender.send(..)): the next fetched event goes into the channel
\* once the channel has a free slot
worker_send(w) ==
    /\ w \in DOMAIN workers
    /\ workers[w].pending # << >>
    /\ Len(channel) < ChannelCapacity
    /\ channel' = Append(channel, Head(workers[w].pending))
    /\ workers' = [workers EXCEPT ![w].pending = Tail(@)]
    /\ event' = NoEvent
    /\ UNCHANGED << engine_vars, recording, daemon_vars, caller_vars, input_log,
                    config_vars, security_vars, conn_vars, injector_vars, grabbed_devices,
                    kernel_grab, kernel_events, read_log, delivered >>

\* one round of the dispatcher task: recv, then process_input_event
dispatcher(p) ==
    /\ p = Dispatcher
    /\ channel # << >>
    /\ channel' = Tail(channel)
    /\ delivered' = [delivered EXCEPT ![Head(channel).device] = Append(@, Head(channel))]
    /\ forward_input_event(p, Head(channel).key_code, Head(channel).pressed,
                           Head(channel).device)
    /\ UNCHANGED << grabbed_devices, kernel_grab, workers, kernel_events, read_log >>

InitEvents ==
    /\ InitDaemonState
    /\ devices = TriggerDevices
    /\ InitExt

NextEvents ==
    \/ \E p \in Procs \ {Dispatcher}, d \in TriggerDevices, k \in GrabReplies :
          grab_device(p, d, k)
    \/ \E p \in Procs \ {Dispatcher}, d \in TriggerDevices, k \in ReleaseReplies :
          ungrab_device(p, d, k)
    \/ \E d \in TriggerDevices : device_event(d)
    \/ \E w \in 1..MaxWorkers : worker_read(w)
    \/ \E w \in 1..MaxWorkers : worker_send(w)
    \/ \E w \in 1..MaxWorkers : worker_exit(w)
    \/ \E p \in Procs : dispatcher(p)
    \/ \E p \in Procs : macros_read(p)
    \/ \E p \in Procs : cmt_loop(p)

SpecEvents == InitEvents /\ [][NextEvents]_vars

\* nothing is in flight between the readers and the dispatcher
Drained ==
    /\ channel = << >>
    /\ \A w \in DOMAIN workers : workers[w].inbox = << >> /\ workers[w].pending = << >>

\* C20: per device, every key event a worker has read reaches the dispatcher
\* exactly once and in the order it was produced and read: the dispatcher never
\* receives an event of a device twice or after a later one, a full channel
\* holds the sender back instead of losing the event, and once nothing is in
\* flight the dispatcher has received every event that was read.
C20_EventsInOrderOnce ==
    /\ Len(channel) <= ChannelCapacity
    /\ \A d \in DevicePaths :
          /\ \A i, j \in 1..Len(delivered[d]) :
                i < j => delivered[d][i].key_code < delivered[d][j].key_code
          /\ Drained => \A i \in 1..Len(read_log[d]) :
                           \E j \in 1..Len(delivered[d]) : delivered[d][j] = read_log[d][i]


----------------------------------------------------------------------------
(* SaveProfile and LoadProfile against the live macro map *)

\* C21: the ProfileSaved response for profile n comes with a profile, stored
\* on disk and in the profile table under n, whose macros are the macros
\* ListMacros returns, and its macros_count is the number of macros stored in
\* that profile.
C21_SaveProfile ==
    (event.op = "SaveProfile" /\ event.resp = "ProfileSaved") =>
        /\ event.name \in DOMAIN profile_files /\ event.name \in DOMAIN profiles
        /\ profile_files[event.name] = event.entry[1]
        /\ profiles[event.name] = event.entry[1]
        /\ Listed(event.entry[1].macros) = Listed(state_macros)
        /\ event.code = Cardinality(DOMAIN event.entry[1].macros)

\* C22: after ProfileLoaded every macro of the profile is among the macros
\* ListMacros returns and among the macros the engine matches triggers
\* against; an Error response for a missing profile leaves both maps as the
\* requests on macros left them.
C22_LoadProfile ==
    /\ (event.op = "LoadProfile" /\ event.resp = "ProfileLoaded") =>
          \A k \in DOMAIN event.entry[1].macros :
              /\ event.entry[1].macros[k] \in Listed(state_macros)
              /\ event.entry[1].macros[k] \in Listed(macros)
    /\ (event.op = "LoadProfile" /\ event.resp = "Error") =>
          event.name \notin DOMAIN profile_files

\* C23: the macros_count of ProfileLoaded is the size of the live macro map,
\* the one ListMacros returns, after the merge.
C23_LoadedCount ==
    (event.op = "LoadProfile" /\ event.resp = "ProfileLoaded") =>
        event.code = Cardinality(DOMAIN state_macros)


----------------------------------------------------------------------------
(* Trigger matching, event routing and playback order in the engine *)

\* the engine with every awaiting caller and every spawned task scheduled
\* again and again, as the tokio runtime does
SpecEngineFair ==
    /\ SpecEngine
    /\ \A p \in Procs : WF_vars(macros_read(p)) /\ WF_vars(cmt_loop(p))
    /\ \A p \in Procs : WF_vars(execute_macro(p)) /\ WF_vars(execute_insert(p))
    /\ \A t \in 1..MaxTasks : WF_vars(task_step(t))

\* the matcher of caller p asks for an execution of entry m
Requested(p, m) ==
    pc[p] = "execute_macro" /\ ret[p] = "check_macro_triggers" /\ cur[p] = Some(m)

\* C27: a press that reaches trigger matching while capacity is free leads to
\* an execution request for a macro only if the macro is enabled, is not
\* restricted to another device and has the code among its trigger keys, and
\* for every such macro the request is made (or the call returns first: the
\* capacity was used up when the map was read, or execute_macro failed).
C27_TriggerMatching ==
    /\ [][\A p \in Procs :
             (pc[p] = "cmt_loop" /\ pc'[p] = "execute_macro") =>
                 cur'[p][1] \in Triggered(macros, req[p].code, req[p].device)]_vars
    /\ \A p \in Procs, m \in MapEntries :
          (/\ pc[p] = "check_macro_triggers"
           /\ Cardinality(DOMAIN executing) < max_concurrent_macros
           /\ m \in Triggered(macros, req[p].code, req[p].device))
             ~> (Requested(p, m) \/ pc[p] = "idle")


\* the engine with recordings, events of both kinds from both devices, macros
\* and executions
NextRouting ==
    \/ \E p \in Procs, n \in MapNames, d \in DevicePaths : start_recording(p, n, d)
    \/ \E p \in Procs : stop_recording(p)
    \/ \E p \in Procs, c \in KeyCodes, b \in BOOLEAN, d \in DevicePaths :
          process_input_event(p, c, b, d)
    \/ \E p \in Procs, m \in MapEntries : add_macro(p, m)
    \/ \E p \in Procs : macros_read(p)
    \/ \E p \in Procs : cmt_loop(p)
    \/ \E p \in Procs, m \in MapEntries : execute_macro_call(p, m)
    \/ \E p \in Procs : execute_macro(p)
    \/ \E p \in Procs : execute_insert(p)
    \/ \E t \in 1..MaxTasks : task_step(t)

SpecRouting == InitEngine /\ [][NextRouting]_vars

\* C28: a release never enters trigger matching, and the step in which
\* process_input_event returns for a release leaves the execution table and
\* the playback tasks (the only callers of the injector) as they were.
C28_ReleaseNeverTriggers ==
    [][ /\ \A p \in Procs :
              req'[p].op = "process_input_event" => req'[p].name = "press"
        /\ (event'.op = "process_input_event" /\ event'.name = "release")
              => (executing' = executing /\ tasks' = tasks) ]_vars

\* a release outside a recording, with a macro on its key in the map
C28_Witness ==
    /\ event.op = "process_input_event" /\ event.name = "release"
    /\ event.resp = "Ok" /\ event.msg = ""
    /\ recording = None
    /\ \E n \in DOMAIN macros : event.code \in macros[n].trigger

\* a release that was recorded while an execution is in the table
C28_WitnessRecorded ==
    /\ event.op = "process_input_event" /\ event.name = "release"
    /\ event.msg = "recorded"
    /\ executing # EmptyMap

\* the recording targets the device
Targets(rec, device_path) == rec # None /\ rec[1].device_id = Some(device_path)

C29_WitnessOther ==
    \E p \in Procs :
        /\ pc[p] = "check_macro_triggers"
        /\ recording # None
        /\ ~Targets(recording, req[p].device)


\* playback of macros of one and of two actions, started through the library
\* API and cancelled by stop_macro
NextPlayback ==
    \/ \E p \in Procs, m \in InputEntries : execute_macro_call(p, m)
    \/ \E p \in Procs : execute_macro(p)
    \/ \E p \in Procs : execute_insert(p)
    \/ \E p \in Procs, n \in MacroNames : stop_macro(p, n)
    \/ \E t \in 1..MaxTasks : task_step(t)

SpecPlayback == InitEngine /\ [][NextPlayback]_vars

\* C30: a playback task starts at its first action, starts action i only
\* after it found the cancellation flag unset, starts action i+1 only when
\* action i has returned, and ends only past its last action or on finding
\* the flag set; apart from that only stop_macro touches it, to set the flag.
C30_ActionsInOrder ==
    [][ /\ \A t \in 1..Len(tasks) :
              tasks'[t] # tasks[t] =>
                  \/ /\ tasks[t].phase = "sample" /\ tasks'[t].phase = "act"
                     /\ tasks'[t].i = tasks[t].i
                     /\ tasks[t].i <= Len(tasks[t].actions)
                     /\ ~tasks[t].stop
                  \/ /\ tasks[t].phase = "act" /\ tasks'[t].phase = "sample"
                     /\ tasks'[t].i = tasks[t].i + 1
                  \/ /\ tasks[t].phase = "sample" /\ tasks'[t].phase = "done"
                     /\ (tasks[t].i > Len(tasks[t].actions) \/ tasks[t].stop)
                  \/ tasks'[t] = [tasks[t] EXCEPT !.stop = TRUE]
        /\ Len(tasks') >= Len(tasks)
        /\ \A t \in (Len(tasks) + 1)..Len(tasks') :
              tasks'[t].i = 1 /\ tasks'[t].phase = "sample" /\ ~tasks'[t].stop ]_vars

\* the second action of a two-action macro has been started
C30_Witness ==
    \E t \in 1..Len(tasks) :
        tasks[t].phase = "act" /\ tasks[t].i = 2 /\ Len(tasks[t].actions) = 2

\* a task about to find its flag set with its second action still to do
C30_WitnessCancelled ==
    \E t \in 1..Len(tasks) :
        tasks[t].phase = "sample" /\ tasks[t].i = 2 /\ tasks[t].stop


----------------------------------------------------------------------------
(* Persistence: the binary cache, the macros file and the startup sequence *)

\* the file contents of the cache: up to four leading bytes, then the rest
CacheFile(head, body) == [head |-> head, body |-> body]

\* 0xDEADBEEFu32.to_le_bytes()
magic_le_bytes == << 239, 190, 173, 222 >>

\* u32::from_le_bytes, the u32 kept as its two 16-bit halves
from_le_bytes(b) == [hi |-> b[3] + 256 * b[4], lo |-> b[1] + 256 * b[2]]

\* 0xDEADBEEF
DEADBEEF == [hi |-> 57005, lo |-> 48879]

\* the units bincode writes: an integer or a length-prefixed string
U(n) == [tag |-> "u", n |-> n, s |-> ""]
S(s) == [tag |-> "s", n |-> 0, s |-> s]

RECURSIVE Concat(_)
Concat(ss) == IF ss = << >> THEN << >> ELSE Head(ss) \o Concat(Tail(ss))

\* KeyCombo.keys as the vector its set of codes stands for
RECURSIVE KeysOf(_)
KeysOf(keys) ==
    IF keys = {} THEN << >>
    ELSE LET k == CHOOSE x \in keys : \A y \in keys : x <= y
         IN  << k >> \o KeysOf(keys \ {k})

\* the orders in which a HashMap may hand out its keys
Orders(keys) ==
    { o \in [1..Cardinality(keys) -> keys] : \A i, j \in DOMAIN o : o[i] = o[j] => i = j }

\* bincode of a MacroEntry: name, trigger (keys, modifiers), actions as
\* (variant index, payload), device_id as Option, enabled as a byte
bincode_entry(m) ==
    << S(m.name), U(Cardinality(m.trigger)) >>
    \o [i \in 1..Cardinality(m.trigger) |-> U(KeysOf(m.trigger)[i])]
    \o << U(0), U(Len(m.actions)) >>
    \o Concat([i \in 1..Len(m.actions) |->
                 << U(IF m.actions[i].type = "KeyPress" THEN 0 ELSE 1),
                    U(m.actions[i].code) >>])
    \o (IF m.device_id = None THEN << U(0) >> ELSE << U(1), S(m.device_id[1]) >>)
    \o << U(IF m.enabled THEN 1 ELSE 0) >>

\* razermapper_common::serialize of the macro map
serialize_macros(map, order) ==
    << U(Len(order)) >>
    \o Concat([i \in 1..Len(order) |-> << S(order[i]) >> \o bincode_entry(map[order[i]])])

\* the reader of bincode: a failed read, a read that ended before unit pos
\* with value val, and whether unit i exists and has the tag
Fail == [ok |-> FALSE, pos |-> 0, val |-> << >>]
Read(pos, val) == [ok |-> TRUE, pos |-> pos, val |-> val]
Tok(ts, i, tag) == i \in 1..Len(ts) /\ ts[i].tag = tag

\* x in front of the elements read after it
Cons(x, r) == IF r.ok THEN Read(r.pos, << x >> \o r.val) ELSE Fail

RECURSIVE read_u16s(_, _, _)
read_u16s(ts, i, n) ==
    IF n = 0 THEN Read(i, << >>)
    ELSE IF ~Tok(ts, i, "u") THEN Fail
    ELSE Cons(ts[i].n, read_u16s(ts, i + 1, n - 1))

read_vec(ts, i) == IF Tok(ts, i, "u") THEN read_u16s(ts, i + 1, ts[i].n) ELSE Fail

RECURSIVE read_actions(_, _, _)
read_actions(ts, i, n) ==
    IF n = 0 THEN Read(i, << >>)
    ELSE IF ~(Tok(ts, i, "u") /\ Tok(ts, i + 1, "u") /\ ts[i].n \in {0, 1}) THEN Fail
    ELSE Cons(IF ts[i].n = 0 THEN KeyPress(ts[i + 1].n) ELSE KeyRelease(ts[i + 1].n),
              read_actions(ts, i + 2, n - 1))

read_action_vec(ts, i) ==
    IF Tok(ts, i, "u") THEN read_actions(ts, i + 1, ts[i].n) ELSE Fail

read_option(ts, i) ==
    IF ~Tok(ts, i, "u") THEN Fail
    ELSE IF ts[i].n = 0 THEN Read(i + 1, None)
    ELSE IF ts[i].n = 1 /\ Tok(ts, i + 1, "s") THEN Read(i + 2, Some(ts[i + 1].s))
    ELSE Fail

read_bool(ts, i) ==
    IF Tok(ts, i, "u") /\ ts[i].n \in {0, 1} THEN Read(i + 1, ts[i].n = 1) ELSE Fail

read_string(ts, i) == IF Tok(ts, i, "s") THEN Read(i + 1, ts[i].s) ELSE Fail

\* the fields of a MacroEntry read so far, and the next one read onto them
Fields(ok, pos, name, keys, acts, dev, en) ==
    [ok |-> ok, pos |-> pos, name |-> name, keys |-> keys, acts |-> acts, dev |-> dev,
     enabled |-> en]
NoFields == Fields(FALSE, 0, "", << >>, << >>, None, FALSE)
with_name(r) ==
    IF r.ok THEN Fields(TRUE, r.pos, r.val, << >>, << >>, None, FALSE) ELSE NoFields
with_keys(e, r) ==
    IF e.ok /\ r.ok THEN [e EXCEPT !.pos = r.pos, !.keys = r.val] ELSE NoFields
with_modifiers(e, r) == IF e.ok /\ r.ok THEN [e EXCEPT !.pos = r.pos] ELSE NoFields
with_actions(e, r) ==
    IF e.ok /\ r.ok THEN [e EXCEPT !.pos = r.pos, !.acts = r.val] ELSE NoFields
with_device(e, r) ==
    IF e.ok /\ r.ok THEN [e EXCEPT !.pos = r.pos, !.dev = r.val] ELSE NoFields
with_enabled(e, r) ==
    IF e.ok /\ r.ok THEN [e EXCEPT !.pos = r.pos, !.enabled = r.val] ELSE NoFields

keys_read(ts, e) == with_keys(e, read_vec(ts, e.pos))
modifiers_read(ts, e) == with_modifiers(e, read_vec(ts, e.pos))
actions_read(ts, e) == with_actions(e, read_action_vec(ts, e.pos))
device_read(ts, e) == with_device(e, read_option(ts, e.pos))
enabled_read(ts, e) == with_enabled(e, read_bool(ts, e.pos))

entry_of(e) ==
    IF e.ok
    THEN Read(e.pos, MacroEntry(e.name, { e.keys[j] : j \in DOMAIN e.keys }, e.acts,
                                e.dev, e.enabled))
    ELSE Fail

\* a MacroEntry: name, trigger.keys, trigger.modifiers, actions, device_id,
\* enabled
read_entry(ts, i) ==
    entry_of(enabled_read(ts, device_read(ts, actions_read(ts,
        modifiers_read(ts, keys_read(ts, with_name(read_string(ts, i))))))))

\* the pair (key, e) in front of the pairs read after it; a key read again
\* replaces the earlier one
ConsPair(key, e, r) ==
    IF e.ok /\ r.ok
    THEN Read(r.pos, IF key \in DOMAIN r.val THEN r.val ELSE Insert(r.val, key, e.val))
    ELSE Fail

RECURSIVE read_pairs(_, _, _)
read_pairs(ts, i, n) ==
    IF n = 0 THEN Read(i, EmptyMap)
    ELSE IF ~Tok(ts, i, "s") THEN Fail
    ELSE IF ~read_entry(ts, i + 1).ok THEN Fail
    ELSE ConsPair(ts[i].s, read_entry(ts, i + 1),
                  read_pairs(ts, read_entry(ts, i + 1).pos, n - 1))

\* razermapper_common::deserialize into a macro map; bytes past the map are
\* not looked at
deserialize_macros(ts) ==
    IF ~Tok(ts, 1, "u") THEN Fail ELSE read_pairs(ts, 2, ts[1].n)

\* the result of a load: whether it succeeded and the map it leaves
Loaded(ok, map) == [ok |-> ok, macros |-> map]

\* a cache loader that trusts the file without looking at its magic
load_macros_from_cache_unchecked(content, map) ==
    LET r == deserialize_macros(content.body)
    IN  IF r.ok THEN Loaded(TRUE, r.val) ELSE Loaded(FALSE, map)

\* load_macros_from_cache on a file with that content, map being the macro
\* map before the call
load_macros_from_cache_result(content, map) ==
    IF Len(content.head) < 4 THEN Loaded(FALSE, map)
    ELSE IF from_le_bytes(content.head) # DEADBEEF THEN Loaded(FALSE, map)
    ELSE LET r == deserialize_macros(content.body)
         IN  IF r.ok THEN Loaded(TRUE, r.val) ELSE Loaded(FALSE, map)

\* save_macros_to_cache: the content written
save_macros_to_cache(map, order) == CacheFile(magic_le_bytes, serialize_macros(map, order))


\* a YAML scalar: its text and whether it is written in quotes
Scalar(text, quoted) == [text |-> text, quoted |-> quoted]

\* plain scalars YAML does not read as strings
YamlNull == {"null", "~", ""}
YamlBool == {"true", "false"}

\* a string serializer that never quotes
yaml_str_plain(s) == Scalar(s, FALSE)

\* serde_yaml writes a string in quotes when its plain form would be read as
\* null or as a boolean
yaml_str(s) == Scalar(s, s \in YamlNull \cup YamlBool)

yaml_option(o) == IF o = None THEN Scalar("null", FALSE) ELSE yaml_str(o[1])
yaml_bool(b) == Scalar(IF b THEN "true" ELSE "false", FALSE)

\* serde_yaml::to_string of a MacroEntry
yaml_entry(m) ==
    [name |-> yaml_str(m.name),
     trigger |-> [keys |-> KeysOf(m.trigger), modifiers |-> << >>],
     actions |-> [i \in 1..Len(m.actions) |->
                    [tag |-> m.actions[i].type, value |-> m.actions[i].code]],
     device_id |-> yaml_option(m.device_id),
     enabled |-> yaml_bool(m.enabled)]

\* a document: whether it parses as YAML, and its top-level mapping
YamlDoc(wellformed, root) == [wellformed |-> wellformed, root |-> root]

\* save_macros_to_yaml: the content written
save_macros_to_yaml(map) == YamlDoc(TRUE, [k \in DOMAIN map |-> yaml_entry(map[k])])

\* serde_yaml::from_str of one entry
from_yaml_option(sc) == IF ~sc.quoted /\ sc.text \in YamlNull THEN None ELSE Some(sc.text)
from_yaml_entry_ok(node) ==
    /\ ~node.enabled.quoted /\ node.enabled.text \in YamlBool
    /\ ~(~node.name.quoted /\ node.name.text \in YamlNull)
    /\ \A i \in DOMAIN node.actions : node.actions[i].tag \in {"KeyPress", "KeyRelease"}
from_yaml_entry(node) ==
    MacroEntry(node.name.text,
               { node.trigger.keys[i] : i \in DOMAIN node.trigger.keys },
               [i \in DOMAIN node.actions |->
                  [type |-> node.actions[i].tag, code |-> node.actions[i].value]],
               from_yaml_option(node.device_id),
               node.enabled.text = "true")

\* load_macros_from_yaml on a file with that content
load_macros_from_yaml_result(doc, map) ==
    IF doc.wellformed /\ \A k \in DOMAIN doc.root : from_yaml_entry_ok(doc.root[k])
    THEN Loaded(TRUE, [k \in DOMAIN doc.root |-> from_yaml_entry(doc.root[k])])
    ELSE Loaded(FALSE, map)


\* what load_config_mut leaves: its result, the files, the macro map, where
\* the macros came from and whether the macros file was read
ConfigLoad(ok, cfg, cache, yaml, map, source, yaml_read) ==
    [ok |-> ok, config_file |-> cfg, cache_file |-> cache, macros_file |-> yaml,
     macros |-> map, source |-> source, yaml_read |-> yaml_read]

\* load_config_mut: the configuration file (written with defaults when
\* missing), then the cache when it exists and loads, else the macros file
\* when it exists, else save_macros of the map as it is
load_config_result(cfg, cache, yaml, map, order) ==
    IF cfg = "invalid"
    THEN ConfigLoad(FALSE, cfg, cache, yaml, map, "", FALSE)
    ELSE IF cache # None /\ load_macros_from_cache_result(cache[1], map).ok
    THEN ConfigLoad(TRUE, "valid", cache, yaml,
                    load_macros_from_cache_result(cache[1], map).macros, "cache", FALSE)
    ELSE IF yaml # None
    THEN ConfigLoad(load_macros_from_yaml_result(yaml[1], map).ok, "valid", cache, yaml,
                    load_macros_from_yaml_result(yaml[1], map).macros, "yaml", TRUE)
    ELSE ConfigLoad(TRUE, "valid", Some(save_macros_to_cache(map, order)),
                    Some(save_macros_to_yaml(map)), map, "defaults", FALSE)

\* load_config_mut called on a configuration manager
load_config_mut(p) ==
    /\ pc[p] = "idle"
    /\ CanWrite(cmacros_lock)
    /\ \E order \in Orders(DOMAIN config_macros) :
          LET r == load_config_result(config_file, cache_file, macros_file,
                                      config_macros, order)
          IN  /\ config_file' = r.config_file
              /\ cache_file' = r.cache_file
              /\ macros_file' = r.macros_file
              /\ config_macros' = r.macros
              /\ event' = Ev("load_config_mut", r.source, "", 0, None,
                             IF r.ok THEN "Ok" ELSE "Err",
                             IF r.yaml_read THEN "macros file read" ELSE "")
    /\ UNCHANGED << engine_vars, recording, daemon_vars, caller_vars, input_log,
                    cmacros_lock, profiles, profiles_lock, profile_files,
                    security_vars, conn_vars, injector_vars, device_vars >>

\* save_macros: the cache, then the macros file, under macros.read()
save_macros(p) ==
    /\ pc[p] = "idle"
    /\ CanRead(cmacros_lock)
    /\ \E order \in Orders(DOMAIN config_macros) :
          cache_file' = Some(save_macros_to_cache(config_macros, order))
    /\ macros_file' = Some(save_macros_to_yaml(config_macros))
    /\ event' = Ev("save_macros", "", "", 0, None, "Ok", "")
    /\ UNCHANGED << engine_vars, recording, daemon_vars, caller_vars, input_log,
                    config_macros, cmacros_lock, profiles, profiles_lock,
                    profile_files, config_file, security_vars, conn_vars, injector_vars,
                    device_vars >>

\* load_macros_from_cache called on a manager whose cache file exists
load_macros_from_cache(p) ==
    /\ pc[p] = "idle"
    /\ cache_file # None
    /\ CanWrite(cmacros_lock)
    /\ config_macros' = load_macros_from_cache_result(cache_file[1], config_macros).macros
    /\ event' = Ev("load_macros_from_cache", "", "", 0, None,
                   IF load_macros_from_cache_result(cache_file[1], config_macros).ok
                   THEN "Ok" ELSE "Err", "")
    /\ UNCHANGED << engine_vars, recording, daemon_vars, caller_vars, input_log,
                    cmacros_lock, profiles, profiles_lock, profile_files, disk_vars,
                    security_vars, conn_vars, injector_vars, device_vars >>

\* load_macros_from_yaml called on a manager whose macros file exists
load_macros_from_yaml(p) ==
    /\ pc[p] = "idle"
    /\ macros_file # None
    /\ CanWrite(cmacros_lock)
    /\ config_macros' = load_macros_from_yaml_result(macros_file[1], config_macros).macros
    /\ event' = Ev("load_macros_from_yaml", "", "", 0, None,
                   IF load_macros_from_yaml_result(macros_file[1], config_macros).ok
                   THEN "Ok" ELSE "Err", "")
    /\ UNCHANGED << engine_vars, recording, daemon_vars, caller_vars, input_log,
                    cmacros_lock, profiles, profiles_lock, profile_files, disk_vars,
                    security_vars, conn_vars, injector_vars, device_vars >>

\* manager.macros().write().await.insert(key, entry)
put_macro(p, key, m) ==
    /\ pc[p] = "idle"
    /\ CanWrite(cmacros_lock)
    /\ config_macros' = Insert(config_macros, key, m)
    /\ event' = Ev("put_macro", key, "", 0, Some(m), "Ok", "")
    /\ UNCHANGED << engine_vars, recording, daemon_vars, caller_vars, input_log,
                    cmacros_lock, profiles, profiles_lock, profile_files, disk_vars,
                    security_vars, conn_vars, injector_vars, device_vars >>

\* get_profile: a lookup in the profile table held in memory
get_profile(table, name) == IF name \in DOMAIN table THEN Some(table[name]) ELSE None

\* the objects main works on are the ones it has just constructed
Constructed ==
    /\ config_macros = EmptyMap /\ profiles = EmptyMap
    /\ macros = EmptyMap /\ state_macros = EmptyMap
    /\ macros_lock = [writer |-> {}, readers |-> {}]
    /\ \A q \in Procs : pc[q] = "idle"
    /\ event = NoEvent

\* main from `Load configuration` to the start of the request server: an
\* error of load_config_mut ends the process; the macros of the profile
\* get_profile("default") returns go to add_macro one by one, and the first
\* add_macro does not return (it awaits update_active_combos under its write
\* guard); otherwise the server starts
main(p) ==
    /\ Constructed
    /\ \E order \in Orders(DOMAIN config_macros) :
          LET r == load_config_result(config_file, cache_file, macros_file,
                                      config_macros, order)
              default_profile == get_profile(profiles, "default")
          IN  /\ config_file' = r.config_file
              /\ cache_file' = r.cache_file
              /\ macros_file' = r.macros_file
              /\ config_macros' = r.macros
              /\ IF ~r.ok
                 THEN /\ event' = Ev("main", r.source, "", 0, None, "Err", "")
                      /\ UNCHANGED << macros, macros_lock, pc, req >>
                 ELSE IF default_profile # None /\ DOMAIN default_profile[1].macros # {}
                 THEN \E k \in DOMAIN default_profile[1].macros :
                         /\ macros' = Insert(macros, default_profile[1].macros[k].name,
                                             default_profile[1].macros[k])
                         /\ macros_lock' = [macros_lock EXCEPT !.writer = {p}]
                         /\ SetPc(p, "update_active_combos")
                         /\ req' = [req EXCEPT ![p] =
                                      Ev("add_macro", default_profile[1].macros[k].name, "",
                                         0, Some(default_profile[1].macros[k]), "", "")]
                         /\ event' = NoEvent
                 ELSE /\ event' = Ev("main", r.source, "", 0, None, "serving", "")
                      /\ UNCHANGED << macros, macros_lock, pc, req >>
    /\ UNCHANGED << injector, active_combos, recording, executing, tasks, daemon_vars,
                    cur, todo, ret, input_log, cmacros_lock, profiles, profiles_lock,
                    profile_files, security_vars, conn_vars, injector_vars, device_vars >>

\* the entries, maps and file contents of the persistence runs
PersistEntries ==
    { MacroEntry("m1", {30}, << KeyPress(30), KeyRelease(30) >>, dev, TRUE) :
        dev \in {None, Some("null")} }
StoredMaps ==
    { EmptyMap,
      [k \in {"m1"} |-> MacroEntry("m1", {30}, << KeyPress(30) >>, None, TRUE)],
      [k \in MacroNames |->
          MacroEntry(k, {30}, << KeyPress(30), KeyRelease(30) >>, Some("null"), k = "m1")] }

\* a valid cache whose last unit is cut off
Truncated(content) ==
    CacheFile(content.head, SubSeq(content.body, 1, Len(content.body) - 1))

\* the cache save_macros writes for a map, and the same with its first byte
\* altered
ValidCaches ==
    { save_macros_to_cache(map, CHOOSE o \in Orders(DOMAIN map) : TRUE) : map \in StoredMaps }
Altered(content) == CacheFile(<< 238 >> \o Tail(content.head), content.body)

CacheImages ==
    { None, Some(CacheFile(<< 239, 190 >>, << >>)) }
    \cup { Some(c) : c \in ValidCaches }
    \cup { Some(Altered(c)) : c \in ValidCaches }
    \cup { Some(Truncated(c)) : c \in ValidCaches }

YamlImages ==
    { None, Some(YamlDoc(FALSE, EmptyMap)) }
    \cup { Some(save_macros_to_yaml(map)) : map \in StoredMaps }

StartupProfiles ==
    { EmptyMap }
    \cup { [n \in {"default"} |-> Profile("default", map)] : map \in StoredMaps \ {EmptyMap} }

\* a process about to run main, on any content of the configuration directory
InitPersist ==
    /\ InitDaemonState
    /\ devices = TriggerDevices
    /\ InitConfigManager
    /\ profile_files \in StartupProfiles
    /\ config_file \in {"missing", "valid", "invalid"}
    /\ cache_file \in CacheImages
    /\ macros_file \in YamlImages
    /\ InitSecurityManager(FALSE)
    /\ InitConn
    /\ InitDeviceManager
    /\ InitInjector

NextPersist ==
    \/ \E p \in Procs : main(p)
    \/ \E p \in Procs : load_config_mut(p)
    \/ \E p \in Procs : save_macros(p)
    \/ \E p \in Procs : load_macros_from_cache(p)
    \/ \E p \in Procs : load_macros_from_yaml(p)
    \/ \E p \in Procs, k \in MacroNames, m \in PersistEntries : put_macro(p, k, m)

SpecPersist == InitPersist /\ [][NextPersist]_vars


\* the cache fails the length or the magic test
CacheRejected(cache) ==
    cache # None /\ (Len(cache[1].head) < 4 \/ cache[1].head # << 239, 190, 173, 222 >>)

\* the cache passes both tests and holds a macro map
CacheValid(cache) ==
    /\ cache # None /\ cache[1].head = << 239, 190, 173, 222 >>
    /\ deserialize_macros(cache[1].body).ok

\* C24: load_config_mut, with a readable configuration file: a cache that is
\* shorter than four bytes or does not start with EF BE AD DE contributes
\* nothing to the macro map, which then comes from the macros file (or stays
\* as it was when that file is missing or unreadable); a valid cache becomes
\* the macro map and the macros file is not read.
C24_CacheOrText ==
    [][ (event'.op = "load_config_mut" /\ config_file # "invalid") =>
          /\ CacheRejected(cache_file) =>
                IF macros_file # None
                THEN /\ event'.name = "yaml" /\ event'.msg = "macros file read"
                     /\ config_macros' =
                          load_macros_from_yaml_result(macros_file[1], config_macros).macros
                ELSE event'.name = "defaults" /\ config_macros' = config_macros
          /\ CacheValid(cache_file) =>
                /\ event'.name = "cache" /\ event'.msg = "" /\ event'.resp = "Ok"
                /\ config_macros' = deserialize_macros(cache_file[1].body).val ]_vars

\* a cache with an altered first byte was passed over for the macros file
C24_Witness ==
    /\ event.op = "load_config_mut" /\ event.name = "yaml" /\ event.resp = "Ok"
    /\ cache_file # None /\ Len(cache_file[1].head) = 4
    /\ deserialize_macros(cache_file[1].body).ok
    /\ deserialize_macros(cache_file[1].body).val # config_macros
    /\ config_macros # EmptyMap

\* a valid cache was used although the macros file holds another map
C24_WitnessValid ==
    /\ event.op = "load_config_mut" /\ event.name = "cache"
    /\ macros_file # None
    /\ load_macros_from_yaml_result(macros_file[1], EmptyMap) # Loaded(TRUE, config_macros)
    /\ config_macros # EmptyMap

\* C25: when save_macros has returned, the cache and the macros file each
\* load to the macro map that was saved: the same keys, and under each key
\* the same entry with its actions in the same order.
C25_SaveLoadRoundTrip ==
    event.op = "save_macros" =>
        /\ cache_file # None /\ macros_file # None
        /\ load_macros_from_cache_result(cache_file[1], EmptyMap)
              = Loaded(TRUE, config_macros)
        /\ load_macros_from_yaml_result(macros_file[1], EmptyMap)
              = Loaded(TRUE, config_macros)

\* a saved map of two entries, with two actions and a device named "null"
C25_Witness ==
    /\ event.op = "save_macros"
    /\ DOMAIN config_macros = MacroNames
    /\ \E k \in DOMAIN config_macros :
          /\ config_macros[k].device_id = Some("null")
          /\ config_macros[k].actions = << KeyPress(30), KeyRelease(30) >>

\* C26: when main has started the request server and the profile directory
\* holds a profile `default`, every macro of that profile is in the macro
\* engine's map.
C26_DefaultProfileLoaded ==
    (event.op = "main" /\ event.resp = "serving" /\ "default" \in DOMAIN profile_files) =>
        \A k \in DOMAIN profile_files["default"].macros :
            profile_files["default"].macros[k] \in Listed(macros)

----------------------------------------------------------------------------
(* Cancellation and injector errors during playback *)

\* name has a playback in progress: an entry of the execution table whose
\* task has neither run past its last action nor seen its flag
Executing(name) == name \in DOMAIN executing /\ Running(executing[name])

\* once the flag of a task is set the task starts no further action
StoppedStartsNothing ==
    [][ \A t \in 1..Len(tasks) :
            tasks[t].stop => ~(tasks[t].phase = "sample" /\ tasks'[t].phase = "act") ]_vars

\* C31: stop_macro(name) of a running execution returns true, sets the flag of
\* that execution, after which its task starts no further action, and leaves
\* name out of the execution table; stop_macro of a name with no execution in
\* progress returns false and changes nothing.
C31_StopMacro ==
    [][ /\ \A t \in 1..Len(tasks) :
              tasks[t].stop => ~(tasks[t].phase = "sample" /\ tasks'[t].phase = "act")
        /\ \A n \in MacroNames :
              (event'.op = "stop_macro" /\ event'.name = n) =>
                  IF Executing(n)
                  THEN /\ event'.resp = "Ok(true)"
                       /\ tasks'[executing[n]].stop
                       /\ n \notin DOMAIN executing'
                  ELSE /\ event'.resp = "Ok(false)"
                       /\ executing' = executing
                       /\ tasks' = tasks ]_vars

----------------------------------------------------------------------------
(* The injector: the writes of a playback task to the virtual device *)

\* Linux input event constants
EV_SYN == 0
EV_KEY == 1
EV_REL == 2
SYN_REPORT == 0
REL_X == 0
REL_Y == 1

MouseMove(x, y) == [type |-> "MouseMove", x |-> x, y |-> y]

\* struct InputEvent, without its timestamp
InputEvent(type_, code, value) == [type_ |-> type_, code |-> code, value |-> value]

\* the typed events key_press, key_release and mouse_move write before sync()
reports(action) ==
    CASE action.type = "KeyPress" -> << InputEvent(EV_KEY, action.code, 1) >>
      [] action.type = "KeyRelease" -> << InputEvent(EV_KEY, action.code, 0) >>
      [] action.type = "MouseMove" ->
            (IF action.x # 0 THEN << InputEvent(EV_REL, REL_X, action.x) >> ELSE << >>)
            \o (IF action.y # 0 THEN << InputEvent(EV_REL, REL_Y, action.y) >> ELSE << >>)

\* sync(): write_event(EV_SYN, SYN_REPORT, 0)
sync == InputEvent(EV_SYN, SYN_REPORT, 0)

\* all the write_event calls of one injector method, in order
writes(action) == Append(reports(action), sync)

\* how many of them action i of task t has made
Written(t, i) == Cardinality({ k \in 1..Len(uinput) : uinput[k].task = t /\ uinput[k].i = i })

\* the task goes on to sample its flag for the next action
next_action(task) == [task EXCEPT !.phase = "sample", !.i = @ + 1]

\* a task that gives up at the first injector error
abort_on_error(task) == [task EXCEPT !.phase = "done", !.i = 0, !.stop = FALSE]

\* what the action match of the task does with an error of the injector: log it
after_error(task) == next_action(task)

\* one write_event of the injector method a task is in: the write(2) fails, the
\* method returns the error (the `?`) and the task logs it, or the event is
\* written and, after the sync, the method returns Ok
write_event(t, ok) ==
    /\ t \in 1..Len(tasks)
    /\ tasks[t].phase = "act"
    /\ LET i == tasks[t].i
           w == writes(tasks[t].actions[i])
           k == Written(t, i) + 1
       IN IF ~ok
          THEN /\ inject_errors' = inject_errors \cup { << t, i >> }
               /\ tasks' = [tasks EXCEPT ![t] = after_error(@)]
               /\ UNCHANGED uinput
          ELSE /\ uinput' = Append(uinput, [ev |-> w[k], task |-> t, i |-> i])
               /\ tasks' = IF k = Len(w) THEN [tasks EXCEPT ![t] = next_action(@)] ELSE tasks
               /\ UNCHANGED inject_errors
    /\ event' = NoEvent
    /\ UNCHANGED << injector, macros, macros_lock, active_combos, recording, executing,
                    daemon_vars, config_vars, security_vars, conn_vars, device_vars,
                    spawned, caller_vars, input_log >>

\* the head of the task's loop: the flag is sampled before the next action
task_sample(t) ==
    /\ t \in 1..Len(tasks)
    /\ tasks[t].phase = "sample"
    /\ task_step(t)

\* a macro of key actions and a macro of one pointer action
InjectEntries ==
    { MacroEntry("m1", {30}, << KeyPress(30), KeyRelease(30) >>, None, TRUE),
      MacroEntry("m2", {30}, << MouseMove(1, 1) >>, None, TRUE) }

\* the callers that start and stop playbacks
Players == { 1 }

NextInject ==
    \/ \E p \in Players, m \in InjectEntries : execute_macro_call(p, m)
    \/ \E p \in Players : execute_macro(p)
    \/ \E p \in Players : execute_insert(p)
    \/ \E p \in Players, n \in MacroNames : stop_macro(p, n)
    \/ \E t \in 1..MaxTasks : task_sample(t)
    \/ \E t \in 1..MaxTasks, ok \in BOOLEAN : write_event(t, ok)

SpecInject == InitEngine /\ [][NextInject]_vars

\* C32: when the injector returns an error for an action, the task goes on to
\* the next action: it samples the flag with the following index, starts each
\* action it finds the flag unset for, and ends only past its last action or
\* on finding the flag set.
C32_ErrorsDoNotAbort ==
    [][ \A t \in 1..Len(tasks) :
            /\ << t, tasks[t].i >> \in inject_errors' \ inject_errors
                  => tasks'[t] = [tasks[t] EXCEPT !.phase = "sample", !.i = @ + 1]
            /\ (tasks[t].phase = "sample" /\ tasks'[t].phase = "done")
                  => (tasks[t].i > Len(tasks[t].actions) \/ tasks[t].stop)
            /\ (tasks[t].phase = "sample" /\ tasks'[t].phase = "act")
                  => tasks'[t].i = tasks[t].i ]_vars

\* the second action is under way although the first returned an error
C32_Witness ==
    \E t \in 1..Len(tasks) :
        /\ << t, 1 >> \in inject_errors
        /\ tasks[t].phase = "act" /\ tasks[t].i = 2 /\ Written(t, 2) = 1

\* a task whose every action failed ran to the end of its list
C32_WitnessAllFailed ==
    \E t \in 1..Len(tasks) :
        /\ << t, 1 >> \in inject_errors /\ << t, 2 >> \in inject_errors
        /\ tasks[t].phase = "done"


\* entry k of the stream is a key, button or relative-axis report
IsReport(k) == uinput[k].ev.type_ # EV_SYN

\* C38: in the stream written to the virtual device, a key, button or
\* relative-axis report of one action is followed only by events of that same
\* action up to its synchronization frame: the next event after a report is
\* never an event of another action, whatever executions inject concurrently
\* (reports of an action whose injector call failed are left out).
C38_FramesNotInterleaved ==
    \A k \in 1..Len(uinput) :
        (IsReport(k) /\ k < Len(uinput) /\ << uinput[k].task, uinput[k].i >> \notin inject_errors)
            => (uinput[k + 1].task = uinput[k].task /\ uinput[k + 1].i = uinput[k].i)


----------------------------------------------------------------------------
(* Shutdown of the device manager and the life of the event workers *)

\* the kernel's answers to the release requests of a shutdown, per device
ReleaseAnswers == [DevicePaths -> ReleaseReplies]

\* `for path in device_paths { self.ungrab_device(&path) }`
RECURSIVE ungrab_all(_, _, _)
ungrab_all(table, paths, replies) ==
    IF paths = {}
    THEN table
    ELSE LET d == CHOOSE x \in paths : TRUE
         IN  ungrab_all(ungrab_device_result(table, d, replies[d]).grabbed_devices,
                        paths \ {d}, replies)

\* a shutdown that gives up at the first release the kernel refuses
shutdown_fail_fast(table, replies) ==
    IF \E d \in DOMAIN table : replies[d] # "ok"
    THEN UngrabResult("Err", [d \in { x \in DOMAIN table : replies[x] # "ok" } |-> table[d]])
    ELSE UngrabResult("Ok", EmptyMap)

\* shutdown: every path of the table is handed to ungrab_device, whose errors
\* are logged; the result is Ok
shutdown_result(table, replies) ==
    UngrabResult("Ok", ungrab_all(table, DOMAIN table, replies))

\* DeviceManager::shutdown; the event's name field tells whether the kernel
\* refused a release; dropping the removed entries closes their handles; the
\* event workers are not told anything
shutdown(p, replies) ==
    /\ pc[p] = "idle"
    /\ LET r == shutdown_result(grabbed_devices, replies)
           refused == \E d \in DOMAIN grabbed_devices : replies[d] # "ok"
       IN  /\ grabbed_devices' = r.grabbed_devices
           /\ kernel_grab' = kernel_grab \ (DOMAIN grabbed_devices \ DOMAIN r.grabbed_devices)
           /\ event' = Ev("shutdown", IF refused THEN "release_failed" ELSE "ok", "",
                          Cardinality(DOMAIN grabbed_devices), None, r.resp, "")
    /\ UNCHANGED << engine_vars, recording, daemon_vars, caller_vars, input_log,
                    config_vars, security_vars, conn_vars, injector_vars, workers, channel,
                    kernel_events, read_log, delivered >>

NextShutdown ==
    \/ \E p \in Procs, d \in DevicePaths, k \in GrabReplies : grab_device(p, d, k)
    \/ \E p \in Procs, d \in DevicePaths, k \in ReleaseReplies : ungrab_device(p, d, k)
    \/ \E w \in 1..MaxWorkers : worker_exit(w)
    \/ \E p \in Procs, replies \in ReleaseAnswers : shutdown(p, replies)

SpecShutdown == InitGrab /\ [][NextShutdown]_vars

\* C33: when shutdown has returned the grabbed table is empty and the result
\* is Ok, whatever was grabbed and whatever the kernel answered to the release
\* requests.
C33_ShutdownEmptiesTable ==
    event.op = "shutdown" =>
        /\ event.resp = "Ok"
        /\ grabbed_devices = EmptyMap

\* a shutdown with two devices grabbed, one of whose releases the kernel refused
C33_Witness ==
    /\ event.op = "shutdown"
    /\ event.code = 2
    /\ event.name = "release_failed"


\* the event pipeline of one device with grab, ungrab and shutdown
NextWorkers ==
    \/ NextEvents
    \/ \E p \in Procs \ {Dispatcher}, replies \in ReleaseAnswers : shutdown(p, replies)

SpecWorkers == InitEvents /\ [][NextWorkers]_vars

\* C34: there is never more than one event worker for a device, a worker
\* fetches events of its device only while the device is in the grabbed table
\* (after ungrab_device or shutdown it forwards nothing further), and no event
\* of a device reaches the dispatcher twice, also after grab, ungrab and a
\* second grab.
C34_OneWorkerPerGrab ==
    [][ /\ \A w1, w2 \in DOMAIN workers' :
              w1 # w2 => workers'[w1].device # workers'[w2].device
        /\ \A d \in DevicePaths :
              read_log'[d] # read_log[d] => d \in DOMAIN grabbed_devices
        /\ \A d \in DevicePaths : \A i, j \in 1..Len(delivered'[d]) :
              i # j => delivered'[d][i] # delivered'[d][j] ]_vars


----------------------------------------------------------------------------
(* The recording slot of the daemon state against the engine's session *)

\* C35: whenever no RecordMacro or StopRecording request is in flight, the
\* recording slot of the daemon state holds (name, device) exactly when the
\* engine holds a recording session with that name and target device.
C35_RecordingSlotAgrees ==
    (\A p \in Procs : pc[p] = "idle") =>
        IF recording = None
        THEN active_recording = None
        ELSE active_recording = Some(<< recording[1].name, recording[1].device_id[1] >>)


----------------------------------------------------------------------------
(* Deleted macros and the sets macros are run from *)

\* the requests that insert and remove macros, the lookups of TestMacro and
\* ExecuteMacro, and key presses from the dispatcher.  The engine's macro map
\* is empty while the server runs, so no lookup and no press reaches
\* execute_macro, whose steps are left out.
NextLive ==
    \/ \E p \in Procs, d \in TriggerDevices, m \in PlayEntries : set_macro(p, d, m)
    \/ \E p \in Procs, n \in MacroNames : delete_macro(p, n)
    \/ \E p \in Procs, op \in {"TestMacro", "ExecuteMacro"}, n \in MacroNames :
          test_macro(p, op, n)
    \/ \E p \in Procs : macros_read(p)
    \/ \E p \in Procs, d \in TriggerDevices, n \in MapNames : record_macro(p, d, n)
    \/ \E p \in Procs : record_state(p)
    \/ \E p \in Procs : stop_recording_request(p)
    \/ \E p \in Procs : stop_state(p)
    \/ \E p \in Procs, n \in ProfileNames : load_profile_request(p, n)
    \/ \E p \in Procs : load_profile_profiles(p)
    \/ \E p \in Procs : load_profile_macros(p)
    \/ \E p \in Procs, c \in KeyCodes, d \in TriggerDevices :
          process_input_event(p, c, TRUE, d)
    \/ \E p \in Procs : cmt_loop(p)

SpecLive == InitProfile /\ [][NextLive]_vars

C36_WitnessPress ==
    /\ \E p \in Procs : pc[p] = "check_macro_triggers"
    /\ event.op = "DeleteMacro" /\ event.resp = "Ack" /\ event.name = "m1"
    /\ "m2" \in DOMAIN state_macros


----------------------------------------------------------------------------
(* DeleteProfile and ListProfiles *)

\* the profile names clients use, in the order sort() gives them
DirNames == << "p1", "p2" >>
DirNameSet == { DirNames[i] : i \in DOMAIN DirNames }

\* a removal that takes every profile with it
remove_every(map, name) == EmptyMap

\* profiles.remove(name), and fs::remove_file of <name>.yaml when it exists
profile_remove(map, name) == Remove(map, name)

\* list_profiles: the stems of the .yaml files of the directory, sorted
list_profiles_result(files) ==
    LET present == { i \in DOMAIN DirNames : DirNames[i] \in DOMAIN files }
        nth(k) == CHOOSE i \in present : Cardinality({ j \in present : j < i }) = k - 1
    IN  [k \in 1..Cardinality(present) |-> DirNames[nth(k)]]

\* DeleteProfile up to delete_profile's profiles.write().await: the file is
\* removed when it exists; an error of remove_file is passed up (the `?`);
\* the code field of the event tells whether the file existed
delete_profile_request(p, name, removed) ==
    /\ pc[p] = "idle"
    /\ IF name \in DOMAIN profile_files /\ ~removed
       THEN /\ event' = Ev("DeleteProfile", name, "", 0, None, "Error",
                           "Failed to delete profile")
            /\ UNCHANGED << pc, req, profile_files >>
       ELSE /\ profile_files' = profile_remove(profile_files, name)
            /\ SetPc(p, "delete_profile_profiles")
            /\ req' = [req EXCEPT ![p] =
                         Ev("DeleteProfile", name, "",
                            IF name \in DOMAIN profile_files THEN 1 ELSE 0, None, "", "")]
            /\ event' = NoEvent
    /\ UNCHANGED << engine_vars, recording, daemon_vars, security_vars, conn_vars, injector_vars,
                    device_vars, config_macros, cmacros_lock, profiles, profiles_lock,
                    disk_vars, cur, todo, ret, input_log >>

\* delete_profile: profiles.write().await is granted; the removal, the return
\* and the handler's Ack
delete_profile_profiles(p) ==
    /\ pc[p] = "delete_profile_profiles"
    /\ CanWrite(profiles_lock)
    /\ profiles' = profile_remove(profiles, req[p].name)
    /\ event' = Returned(req[p], "Ack", "")
    /\ SetPc(p, "idle")
    /\ req' = [req EXCEPT ![p] = NoReq]
    /\ UNCHANGED << engine_vars, recording, daemon_vars, security_vars, conn_vars, injector_vars,
                    device_vars, config_macros, cmacros_lock, profiles_lock, profile_files,
                    disk_vars, cur, todo, ret, input_log >>

\* ListProfiles; the entry field of the event holds the names returned
list_profiles(p) ==
    /\ pc[p] = "idle"
    /\ event' = Ev("ListProfiles", "", "", 0, list_profiles_result(profile_files),
                   "Profiles", "")
    /\ UNCHANGED << engine_vars, recording, daemon_vars, ext_vars, caller_vars, input_log >>

\* the profile directory when the daemon starts: any of the two profiles,
\* each empty or holding macro m1
DirImages ==
    { [n \in N |-> Profile(n, f[n])] :
          N \in SUBSET DirNameSet,
          f \in [DirNameSet -> {EmptyMap} \cup [MapNames -> MapEntries]] }

InitProfileDir ==
    /\ InitDaemonState
    /\ devices = DevicePaths
    /\ InitConfigManager
    /\ profile_files \in DirImages
    /\ FreshDisk
    /\ InitSecurityManager(FALSE)
    /\ InitConn
    /\ InitDeviceManager
    /\ InitInjector

NextProfileDir ==
    \/ \E p \in Procs, d \in TriggerDevices, m \in MapEntries : set_macro(p, d, m)
    \/ \E p \in Procs, n \in DirNameSet : load_profile_request(p, n)
    \/ \E p \in Procs : load_profile_profiles(p)
    \/ \E p \in Procs : load_profile_macros(p)
    \/ \E p \in Procs, n \in DirNameSet : save_profile_request(p, n)
    \/ \E p \in Procs : save_profile_macros(p)
    \/ \E p \in Procs : save_profile_profiles(p)
    \/ \E p \in Procs, n \in DirNameSet, removed \in BOOLEAN :
          delete_profile_request(p, n, removed)
    \/ \E p \in Procs : delete_profile_profiles(p)
    \/ \E p \in Procs : list_profiles(p)

SpecProfileDir == InitProfileDir /\ [][NextProfileDir]_vars

\* C37: DeleteProfile(n) removes the file of n and the table entry of n and
\* nothing else: every other file and table entry and the macro maps are as
\* before, and for a name with neither file nor entry nothing changes; it
\* answers Ack.  A LoadProfile(n) made while n has no file is answered Error,
\* and ListProfiles returns exactly the names that have a file.
C37_DeleteProfile ==
    [][ /\ \A p \in Procs :
              /\ (pc[p] = "idle" /\ pc'[p] = "delete_profile_profiles")
                    => /\ req'[p].name \notin DOMAIN profile_files'
                       /\ \A n \in DOMAIN profile_files \ {req'[p].name} :
                             n \in DOMAIN profile_files' /\ profile_files'[n] = profile_files[n]
                       /\ DOMAIN profile_files' \subseteq DOMAIN profile_files
                       /\ UNCHANGED << profiles, state_macros, config_macros, macros >>
              /\ (pc[p] = "delete_profile_profiles" /\ pc'[p] = "idle")
                    => /\ event'.op = "DeleteProfile" /\ event'.resp = "Ack"
                       /\ req[p].name \notin DOMAIN profiles'
                       /\ \A n \in DOMAIN profiles \ {req[p].name} :
                             n \in DOMAIN profiles' /\ profiles'[n] = profiles[n]
                       /\ DOMAIN profiles' \subseteq DOMAIN profiles
                       /\ UNCHANGED << profile_files, state_macros, config_macros, macros >>
              /\ (pc[p] = "idle" /\ pc'[p] = "load_profile_profiles")
                    => req'[p].name \in DOMAIN profile_files
        /\ event'.op = "ListProfiles"
              => { event'.entry[i] : i \in DOMAIN event'.entry } = DOMAIN profile_files ]_vars

\* DeleteProfile(p1) of a stored and loaded profile has answered, with profile
\* p2 still on disk and in the table and a macro in the live map
C37_Witness ==
    /\ event.op = "DeleteProfile" /\ event.resp = "Ack"
    /\ event.name = "p1" /\ event.code = 1
    /\ "p2" \in DOMAIN profiles /\ "p2" \in DOMAIN profile_files
    /\ state_macros # EmptyMap

\* DeleteProfile of a name with no profile has answered
C37_WitnessMissing ==
    /\ event.op = "DeleteProfile" /\ event.resp = "Ack" /\ event.code = 0
    /\ profiles # EmptyMap

----------------------------------------------------------------------------
(* execute_command: the allowlist in front of the subprocess *)

\* a command line is a sequence of characters
White == { " ", "\t" }

\* the programs of allowed_commands
allowed_commands ==
    { << "x", "d", "o", "t", "o", "o", "l" >>,
      << "x", "r", "a", "n", "d", "r" >>,
      << "a", "m", "i", "x", "e", "r" >>,
      << "n", "o", "t", "i", "f", "y", "-", "s", "e", "n", "d" >>,
      << "p", "a", "c", "t", "l" >>,
      << "p", "l", "a", "y", "e", "r", "c", "t", "l" >>,
      << "b", "r", "i", "g", "h", "t", "n", "e", "s", "s", "c", "t", "l" >>,
      << "x", "b", "a", "c", "k", "l", "i", "g", "h", "t" >> }

\* str::split_whitespace: the maximal runs of non-whitespace characters;
\* word is the run being read
RECURSIVE split_from(_, _, _)
split_from(s, i, word) ==
    IF i > Len(s)
    THEN IF word = << >> THEN << >> ELSE << word >>
    ELSE IF s[i] \in White
    THEN (IF word = << >> THEN << >> ELSE << word >>) \o split_from(s, i + 1, << >>)
    ELSE split_from(s, i + 1, Append(word, s[i]))

split_whitespace(s) == split_from(s, 1, << >>)

\* an allowlist test that accepts a command naming an allowed program anywhere
allowed_any_word(parts) == \E i \in DOMAIN parts : parts[i] \in allowed_commands

\* allowed_commands.contains(&program) with program = parts[0]
allowed(parts) == parts[1] \in allowed_commands

\* how the subprocess ends, or that it could not be started
CommandOutcomes == { "success", "failed", "not_started", "timeout" }

CommandResult(resp, msg, spawn) == [resp |-> resp, msg |-> msg, spawn |-> spawn]

\* execute_command: its result and the subprocess it starts, if any
execute_command_result(command, outcome) ==
    LET parts == split_whitespace(command) IN
    IF parts = << >>
    THEN CommandResult("Err", "Empty command", None)
    ELSE IF ~allowed(parts)
    THEN CommandResult("Err", "Command is not allowed", None)
    ELSE LET child == Some([program |-> parts[1], args |-> Tail(parts)]) IN
         CASE outcome = "success" -> CommandResult("Ok", "", child)
           [] outcome = "failed" -> CommandResult("Err", "Command failed", child)
           [] outcome = "timeout" -> CommandResult("Err", "Command timed out", child)
           [] outcome = "not_started" -> CommandResult("Err", "Failed to execute", None)

\* a call of execute_command: the entry field holds the command line, the
\* name field how the subprocess will end if one is started
CommandCall(command, outcome) == Ev("execute_command", outcome, "", 0, command, "", "")

\* execute_command, from its call to its return
execute_command(p) ==
    LET r == execute_command_result(req[p].entry, req[p].name) IN
    /\ pc[p] = "execute_command"
    /\ spawned' = IF r.spawn # None THEN Append(spawned, r.spawn[1]) ELSE spawned
    /\ event' = Returned(req[p], r.resp, r.msg)
    /\ SetPc(p, "idle")
    /\ req' = [req EXCEPT ![p] = NoReq]
    /\ UNCHANGED << engine_vars, recording, daemon_vars, cur, todo, ret, input_log,
                    config_vars, security_vars, conn_vars, device_vars, uinput,
                    inject_errors >>

\* command lines: up to three pieces, each a blank, a tab, a stray character,
\* an allowed program or another program
Pieces ==
    { << >>, << " " >>, << "\t" >>, << "x" >>, << "/" >>,
      << "x", "d", "o", "t", "o", "o", "l" >>, << "p", "a", "c", "t", "l" >>,
      << "r", "m" >> }

Commands == { Concat(<< a, b, c >>) : a \in Pieces, b \in Pieces, c \in Pieces }

\* the engine as constructed, with the players about to call execute_command
\* with some command line
InitCommand ==
    /\ injector = TRUE
    /\ macros = EmptyMap
    /\ macros_lock = [writer |-> {}, readers |-> {}]
    /\ active_combos = {}
    /\ recording = None
    /\ executing = EmptyMap
    /\ tasks = << >>
    /\ devices = {}
    /\ state_macros = EmptyMap
    /\ active_recording = None
    /\ InitExt
    /\ pc = [p \in Procs |-> IF p \in Players THEN "execute_command" ELSE "idle"]
    /\ \E command \in Commands, outcome \in CommandOutcomes :
          req = [p \in Procs |-> IF p \in Players THEN CommandCall(command, outcome)
                                 ELSE NoReq]
    /\ cur = [p \in Procs |-> None]
    /\ todo = [p \in Procs |-> {}]
    /\ ret = [p \in Procs |-> ""]
    /\ input_log = << >>
    /\ event = NoEvent

NextCommand == \E p \in Procs : execute_command(p)

SpecCommand == InitCommand /\ [][NextCommand]_vars

\* w is the first whitespace-separated word of the command line s
IsFirstWord(s, w) ==
    \E i \in 1..Len(s) : \E j \in i..Len(s) :
        /\ \A k \in 1..(i - 1) : s[k] \in White
        /\ \A k \in i..j : s[k] \notin White
        /\ j = Len(s) \/ s[j + 1] \in White
        /\ w = SubSeq(s, i, j)

\* C39: execute_command starts a subprocess only for a command line whose
\* first whitespace-separated word is in the allowlist, and then that word is
\* the program started; for every other command line, the empty and the blank
\* ones included, it returns an error and starts nothing.
C39_AllowlistOnly ==
    [][ event'.op = "execute_command" =>
          IF \E w \in allowed_commands : IsFirstWord(event'.entry, w)
          THEN spawned' # spawned =>
                  /\ Len(spawned') = Len(spawned) + 1
                  /\ IsFirstWord(event'.entry, spawned'[Len(spawned')].program)
          ELSE event'.resp = "Err" /\ spawned' = spawned ]_vars

\* a command line naming an allowed program after another word was refused
C39_Witness ==
    /\ event.op = "execute_command" /\ event.resp = "Err"
    /\ event.msg = "Command is not allowed"
    /\ event.entry = << "r", "m", " ", "x", "d", "o", "t", "o", "o", "l" >>
    /\ spawned = << >>

\* a subprocess was started for a command line with a leading blank
C39_WitnessSpawned ==
    /\ event.op = "execute_command" /\ event.resp = "Ok"
    /\ event.entry = << " ", "p", "a", "c", "t", "l", "\t" >>
    /\ Len(spawned) = 1 /\ spawned[1].args = << >>

\* the empty command line was refused
C39_WitnessEmpty ==
    /\ event.op = "execute_command" /\ event.resp = "Err"
    /\ event.entry = << >> /\ spawned = << >>

====
